---- MODULE Spec2Model ----
(***************************************************************************)
(* Model of services/price-refresher.py: the provider state machine, the   *)
(* fallback orchestrator (fetch_with_fallback), one refresh run            *)
(* (refresh_once) and the single-instance lock.                            *)
(*                                                                         *)
(* Prices are integers in thousandths of the currency unit.  Time is an    *)
(* integer clock; one tick is an arbitrary number of seconds.              *)
(***************************************************************************)
EXTENDS Integers, Sequences, FiniteSets, TLC

VARIABLES
    cfg,        \* configuration and flags of the run (fixed after Init)
    now,        \* time.time()
    pstate,     \* skinport_state, steam_state, csfloat_state
    rr_index,   \* rr_index of refresh_once
    fw,         \* the frame of the running fetch_with_fallback call
    cool,       \* history: per provider, when its running cooldown was started
    waited,     \* history: per provider, the consultations declined for a skip
                \* round since its last fetch returned
    fetched,    \* history: entries for which a live request was issued
    pc,         \* where refresh_once stands
    pos,        \* i / idx: position in the running loop (the next entry, from 1)
    ids,        \* case_ids / key_ids / item_keys of the running bucket
    fallback,   \* case_fallback / key_fallback / items_fallback
    prices,     \* the loaded catalog: cases, keys and items
    updated_at, \* the loaded catalog: priceUpdatedAtUtc
    skipped,    \* the skip ledger in memory
    disk_prices,   \* the catalog file
    disk_skipped,  \* the skip ledger file
    disk_backup,   \* the backup file of this run
    lock_owner,    \* which process holds the lock file (0: nobody)
    exit_code,     \* what refresh_once returned
    disk_at_start, \* history: the catalog and ledger files when the run started
    io_log,        \* history: the files written by the run, in order
    examined,      \* history: what the first pass did, entry by entry, in order
    settled,       \* history: the entries whose processing is over, in order
    lpc,           \* two contending processes: where each stands in refresh_once
    lwrote,        \* two contending processes: the files each wrote in its run
    aw,            \* write_json_atomic: the running call and the two files it touches
    ncalls,        \* history: the calls of fetch_with_fallback without preferred_order
    stats,         \* the counters of refresh_once, per bucket
    probe,         \* bulk_price_for on its own: the sources' quotes and the result
    trail,         \* the ledger on its own: per entry, the reasons recorded
                   \* since the entry was last absent
    meta,          \* the top-level fields of the loaded catalog other than
                   \* cases, keys, items and priceUpdatedAtUtc
    run,           \* history: 1 in the first run on the catalog, 2 in the next
    rec,           \* reconcile: the inventories, the links and the loop
    call           \* a function looked at on its own: its input and its result

orchVars == <<cfg, now, pstate, rr_index, fw, cool, waited, fetched>>
runVars == <<pc, pos, ids, fallback, prices, updated_at, skipped, disk_prices,
             disk_skipped, disk_backup, lock_owner, exit_code, disk_at_start,
             io_log, examined, settled, lpc, lwrote, aw, ncalls, stats, probe, trail,
             meta, run, rec, call>>
lockVars == <<lpc, lwrote>>
auxVars == <<aw, ncalls, probe, trail, meta, run, rec, call>>
vars == <<orchVars, runVars>>

None == "None"
\* Python's None where a number is expected
NoPrice == 0 - 999999

\* ---------------------------------------------------------------- bounds
MaxTime == 4
MaxElapsed == 1
MaxCases == 1
MaxKeys == 1
MaxItems == 3
MaxDocs == 3
DocChunks == 2
MaxCalls == 4

\* the bulk sources loaded for the run and what they may list for a name
NSources == 2
BulkPrices == {5020}

\* values the configuration is drawn from
FailThresholds == {1, 2}
SkipRounds == {0, 1}

\* ------------------------------------------------- configuration values
\* providers.failover.cooldownSeconds, in ticks
CooldownSeconds == 2

Providers == {"skinport", "steam", "csfloat"}
ItemTypes == {"cases", "keys", "items"}
\* hard_fail_reasons with the soft reason counted as hard
hard_fail_reasons_soft ==
    {"rate_limited", "http_error", "network_error", "unauthorized", "no_price"}

hard_fail_reasons == {"rate_limited", "http_error", "network_error", "unauthorized"}

\* Money is held in thousandths of the currency unit: 5000 is 5.00.
money_round(v) == ((v + 5) \div 10) * 10

\* what a marketplace may quote for a name (raw, before rounding)
RawPrices == {5000, 5024}
\* BankOfCanadaFx.fetch_usd_to_cad, in hundredths (1.25 CAD for 1 USD)
FxRates == {125}

\* ------------------------------------------------------- ProviderState
ProviderState(name, enabled) ==
    [name |-> name, enabled |-> enabled, cooldown_until |-> 0,
     consecutive_hard_failures |-> 0, skip_rounds_remaining |-> 0]

\* (is_available_any: the enabled flag not looked at)
is_available_any(st, now_ts) ==
    IF st.cooldown_until <= 0 THEN [ok |-> TRUE, st |-> st]
    ELSE IF now_ts >= st.cooldown_until
         THEN [ok |-> TRUE,
               st |-> [st EXCEPT !.cooldown_until = 0,
                                 !.consecutive_hard_failures = 0]]
    ELSE [ok |-> FALSE, st |-> st]

\* is_available with the cooldown ending one tick late
is_available_late(st, now_ts) ==
    IF ~st.enabled THEN [ok |-> FALSE, st |-> st]
    ELSE IF st.cooldown_until <= 0 THEN [ok |-> TRUE, st |-> st]
    ELSE IF now_ts > st.cooldown_until
         THEN [ok |-> TRUE,
               st |-> [st EXCEPT !.cooldown_until = 0,
                                 !.consecutive_hard_failures = 0]]
    ELSE [ok |-> FALSE, st |-> st]

is_available(st, now_ts) ==
    IF ~st.enabled THEN [ok |-> FALSE, st |-> st]
    ELSE IF st.cooldown_until <= 0 THEN [ok |-> TRUE, st |-> st]
    ELSE IF now_ts >= st.cooldown_until
         THEN [ok |-> TRUE,
               st |-> [st EXCEPT !.cooldown_until = 0,
                                 !.consecutive_hard_failures = 0]]
    ELSE [ok |-> FALSE, st |-> st]

\* (should_skip_round_keep: the round declined without counting it)
should_skip_round_keep(st) ==
    IF st.skip_rounds_remaining > 0
    THEN [skip |-> TRUE, st |-> st]
    ELSE [skip |-> FALSE, st |-> st]

should_skip_round(st) ==
    IF st.skip_rounds_remaining > 0
    THEN [skip |-> TRUE,
          st |-> [st EXCEPT !.skip_rounds_remaining = st.skip_rounds_remaining - 1]]
    ELSE [skip |-> FALSE, st |-> st]

Max(a, b) == IF a >= b THEN a ELSE b

\* (record_failure_more: one round more than configured)
record_failure_more(st, skip_rounds) ==
    [st EXCEPT !.skip_rounds_remaining =
        Max(st.skip_rounds_remaining, Max(0, skip_rounds)) + 1]

record_failure(st, skip_rounds) ==
    [st EXCEPT !.skip_rounds_remaining =
        Max(st.skip_rounds_remaining, Max(0, skip_rounds))]

record_success(st) == [st EXCEPT !.consecutive_hard_failures = 0]

\* (record_hard_failure_first: the cooldown started by the first hard failure)
record_hard_failure_first(st, now_ts, fail_threshold, cooldown_seconds) ==
    [st EXCEPT !.cooldown_until = now_ts + cooldown_seconds,
               !.consecutive_hard_failures = 0]

\* (record_hard_failure_kept: the counter kept when the cooldown starts)
record_hard_failure_kept(st, now_ts, fail_threshold, cooldown_seconds) ==
    LET n == st.consecutive_hard_failures + 1
    IN  IF n >= fail_threshold
        THEN [st EXCEPT !.cooldown_until = now_ts + cooldown_seconds,
                        !.consecutive_hard_failures = n]
        ELSE [st EXCEPT !.consecutive_hard_failures = n]

record_hard_failure(st, now_ts, fail_threshold, cooldown_seconds) ==
    LET n == st.consecutive_hard_failures + 1
    IN  IF n >= fail_threshold
        THEN [st EXCEPT !.cooldown_until = now_ts + cooldown_seconds,
                        !.consecutive_hard_failures = 0]
        ELSE [st EXCEPT !.consecutive_hard_failures = n]

\* ---------------------------------------------------- live adapters
\* SkinportProvider.load_bulk_cache and _extract_item_price: the cache entry
\* made of the price `raw` of the items feed; a USD feed is converted when
\* there is an FX rate and taken as it is when there is none
skinport_cached(raw, c) ==
    IF c.skinport_prices_are_usd /\ c.usd_to_cad # NoPrice
    THEN money_round((raw * c.usd_to_cad) \div 100)
    ELSE money_round(raw)

\* SkinportProvider.fetch_cad: a lookup in the caches loaded at run start.
\* `quote` is the cached price of the name, or None.
skinport_fetch_cad(quote) ==
    IF quote # NoPrice THEN [v |-> quote, reason |-> "ok"]
    ELSE [v |-> NoPrice, reason |-> "no_price"]

\* One HTTP attempt of SteamProvider.fetch_cad ends in one of these ways.
SteamAttempts ==
    {"ok", "status_429", "not_success", "unparsable", "http_error", "network_error"}

RECURSIVE steam_loop(_, _, _, _, _)
steam_loop(outs, quote, attempt, limit, last_error) ==
    IF attempt >= limit THEN [v |-> NoPrice, reason |-> last_error]
    ELSE LET a == attempt + 1
             o == outs[a]
         IN  CASE o = "status_429" -> steam_loop(outs, quote, a, limit, "rate_limited")
               [] o = "not_success" -> steam_loop(outs, quote, a, limit, "no_price")
               [] o = "unparsable" -> [v |-> NoPrice, reason |-> "no_price"]
               [] o = "http_error" -> steam_loop(outs, quote, a, limit, "http_error")
               [] o = "network_error" -> steam_loop(outs, quote, a, limit, "network_error")
               [] OTHER -> [v |-> money_round(quote), reason |-> "ok"]

steam_fetch_cad(outs, quote, retries) ==
    steam_loop(outs, quote, 0, Max(1, retries), "unknown")

\* One HTTP attempt of CSFloatProvider.fetch_usd_lowest.
CSFloatAttempts ==
    {"ok", "status_429", "unauthorized", "empty", "bad_listing",
     "http_error", "network_error"}

RECURSIVE csfloat_loop(_, _, _, _, _)
csfloat_loop(outs, quote, attempt, limit, last_error) ==
    IF attempt >= limit THEN [v |-> NoPrice, reason |-> last_error]
    ELSE LET a == attempt + 1
             o == outs[a]
         IN  CASE o = "status_429" -> csfloat_loop(outs, quote, a, limit, "rate_limited")
               [] o = "unauthorized" -> [v |-> NoPrice, reason |-> "unauthorized"]
               [] o = "empty" -> csfloat_loop(outs, quote, a, limit, "no_price")
               [] o = "bad_listing" -> [v |-> NoPrice, reason |-> "no_price"]
               [] o = "http_error" -> csfloat_loop(outs, quote, a, limit, "http_error")
               [] o = "network_error" -> csfloat_loop(outs, quote, a, limit, "network_error")
               [] OTHER -> [v |-> quote, reason |-> "ok"]

csfloat_fetch_usd_lowest(outs, quote, retries) ==
    csfloat_loop(outs, quote, 0, Max(1, retries), "unknown")

\* ------------------------------------------------ provider set-up
\* refresh_once, lines 1507-1540: which providers are enabled for the run.
skinport_enabled(c) == c.skinport_loaded
steam_enabled(c) == c.steam_cfg_enabled
csfloat_enabled(c) == c.csfloat_cfg_enabled /\ c.usd_to_cad # NoPrice

enabled_of(c, p) ==
    CASE p = "skinport" -> skinport_enabled(c)
      [] p = "steam" -> steam_enabled(c)
      [] OTHER -> csfloat_enabled(c)

InitialProviderStates(c) == [p \in Providers |-> ProviderState(p, enabled_of(c, p))]

Filter(seq, S) == SelectSeq(seq, LAMBDA x : x \in S)

provider_order(c) ==
    Filter(<<"skinport", "steam", "csfloat">>, {p \in Providers : enabled_of(c, p)})

\* preferred_order passed by every call site of refresh_once
PreferredOrder == <<"skinport", "csfloat", "steam">>

InSeq(seq) == {seq[i] : i \in 1..Len(seq)}

Rotate(seq, start) == SubSeq(seq, start + 1, Len(seq)) \o SubSeq(seq, 1, start)

\* (resolve_order_stuck: the rotation without the advance of the cursor)
resolve_order_stuck(c, rr, explicit) ==
    LET po == provider_order(c)
    IN  IF explicit
        THEN [ordered |-> Filter(PreferredOrder, InSeq(po)), rr |-> rr]
        ELSE LET start == IF c.rotation_mode = "fixed" THEN 0 ELSE rr % Len(po)
                 rot == Rotate(po, start)
             IN  [ordered |-> IF c.fallback_on_failure THEN rot ELSE SubSeq(rot, 1, 1),
                  rr |-> rr]

\* fetch_with_fallback, lines 1617-1627: the order of this call and the cursor after it
resolve_order(c, rr, explicit) ==
    LET po == provider_order(c)
    IN  IF explicit
        THEN [ordered |-> Filter(PreferredOrder, InSeq(po)), rr |-> rr]
        ELSE LET start == IF c.rotation_mode = "fixed" THEN 0 ELSE rr % Len(po)
                 rr2 == IF c.rotation_mode = "fixed" THEN rr ELSE (rr + 1) % Len(po)
                 rot == Rotate(po, start)
             IN  [ordered |-> IF c.fallback_on_failure THEN rot ELSE SubSeq(rot, 1, 1),
                  rr |-> rr2]

\* (attempts_per_provider_all: every provider given all the attempts)
attempts_per_provider_all(ordered, retries) == retries

\* line 1629
attempts_per_provider(ordered, retries) == IF Len(ordered) > 1 THEN 1 ELSE retries

\* (consult_any_category: CSFloat consulted without its per-category switches)
consult_any_category(p, st, now_ts, item_type, c) ==
    LET a == is_available(st, now_ts)
        s == should_skip_round(a.st)
    IN  IF ~a.ok THEN [st |-> a.st, verdict |-> "unavailable"]
        ELSE IF s.skip THEN [st |-> s.st, verdict |-> "skipped"]
        ELSE IF p = "skinport" /\ ~skinport_enabled(c)
             THEN [st |-> s.st, verdict |-> "disabled"]
        ELSE IF p = "csfloat" /\ (~csfloat_enabled(c) \/ c.usd_to_cad = NoPrice)
             THEN [st |-> s.st, verdict |-> "disabled"]
        ELSE [st |-> s.st, verdict |-> "fetch"]

\* fetch_with_fallback, lines 1633-1642, 1651-1657, 1670-1688: what the loop does
\* with provider p before any request: the verdict is "fetch" or the reason
\* for which the provider is passed over.
consult(p, st, now_ts, item_type, c) ==
    LET a == is_available(st, now_ts)
        s == should_skip_round(a.st)
    IN  IF ~a.ok THEN [st |-> a.st, verdict |-> "unavailable"]
        ELSE IF s.skip THEN [st |-> s.st, verdict |-> "skipped"]
        ELSE IF p = "skinport" /\ ~skinport_enabled(c)
             THEN [st |-> s.st, verdict |-> "disabled"]
        ELSE IF p = "csfloat" /\ (~csfloat_enabled(c) \/ c.usd_to_cad = NoPrice)
             THEN [st |-> s.st, verdict |-> "disabled"]
        ELSE IF p = "csfloat" /\ item_type = "cases" /\ ~c.csfloat_use_cases
             THEN [st |-> s.st, verdict |-> "disabled_cases"]
        ELSE IF p = "csfloat" /\ item_type = "keys" /\ ~c.csfloat_use_keys
             THEN [st |-> s.st, verdict |-> "disabled_keys"]
        ELSE IF p = "csfloat" /\ item_type = "items" /\ ~c.csfloat_use_items
             THEN [st |-> s.st, verdict |-> "disabled_items"]
        ELSE [st |-> s.st, verdict |-> "fetch"]

\* fetch_with_fallback, lines 1643-1650, 1658-1668, 1689-1701: the provider's
\* state after its fetch returned r, the fetch having been consulted at now_ts.
after_fetch(p, st, r, now_ts, c) ==
    IF r.v # NoPrice
    THEN IF p = "skinport" THEN st ELSE record_success(st)
    ELSE LET f == record_failure(st, c.skip_rounds_on_failure)
         IN  IF p # "skinport" /\ r.reason \in hard_fail_reasons
             THEN record_hard_failure(f, now_ts, c.fail_threshold, CooldownSeconds)
             ELSE f

\* the price fetch_with_fallback returns for a successful fetch
returned_price(p, r, c) ==
    IF p = "csfloat" THEN money_round((r.v * c.usd_to_cad) \div 100) ELSE r.v

NoReason == <<None, None>>
NoResult == [v |-> NoPrice, provider |-> None, reason |-> NoReason]
NoEntry == <<None, 0>>
NoCooldown == [on |-> FALSE, consulted |-> 0, failed |-> 0]

FwIdle ==
    [phase |-> "idle", item_type |-> None, entry |-> NoEntry, explicit |-> FALSE,
     ordered |-> <<>>, k |-> 0, attempts |-> 0, now_ts |-> 0,
     last_reason |-> NoReason, result |-> NoResult]

\* fetch_with_fallback is entered (lines 1608-1630)
FwCall(item_type, entry, explicit) ==
    IF provider_order(cfg) = <<>>
    THEN /\ fw' = [FwIdle EXCEPT !.phase = "returned", !.item_type = item_type,
                                 !.entry = entry, !.explicit = explicit,
                                 !.result = [v |-> NoPrice, provider |-> None,
                                             reason |-> <<None, "no_provider">>]]
         /\ rr_index' = rr_index
    ELSE LET o == resolve_order(cfg, rr_index, explicit)
         IN  /\ fw' = [FwIdle EXCEPT !.phase = "consult", !.item_type = item_type,
                                     !.entry = entry, !.explicit = explicit,
                                     !.ordered = o.ordered, !.k = 1,
                                     !.attempts = attempts_per_provider(o.ordered, cfg.retries)]
             /\ rr_index' = o.rr

\* one turn of the provider loop up to the request (or to passing the provider over)
FwConsult ==
    /\ fw.phase = "consult"
    /\ fw.k <= Len(fw.ordered)
    /\ LET p == fw.ordered[fw.k]
           d == consult(p, pstate[p], now, fw.item_type, cfg)
       IN  /\ pstate' = [pstate EXCEPT ![p] = d.st]
           /\ cool' = IF cool[p].on /\ now >= cool[p].consulted + CooldownSeconds
                      THEN [cool EXCEPT ![p] = NoCooldown] ELSE cool
           /\ waited' = IF d.verdict = "skipped"
                        THEN [waited EXCEPT ![p] = @ + 1] ELSE waited
           /\ IF d.verdict = "fetch"
              THEN /\ fw' = [fw EXCEPT !.phase = "fetching", !.now_ts = now]
                   /\ fetched' = fetched \cup {fw.entry}
              ELSE /\ fw' = [fw EXCEPT !.k = fw.k + 1, !.last_reason = <<p, d.verdict>>]
                   /\ fetched' = fetched
    /\ UNCHANGED <<cfg, now, rr_index, runVars>>

\* (FwFetchReturn_next: the loop going on to the next provider after a price)
FwFetchReturn_next ==
    /\ fw.phase = "fetching"
    /\ LET p == fw.ordered[fw.k]
           n == Max(1, fw.attempts)
           quotes == IF p = "skinport" THEN cfg.raw_prices \cup {NoPrice}
                     ELSE cfg.raw_prices
           waits == IF p = "skinport" THEN {0} ELSE 0..MaxElapsed
           attempts == CASE p = "steam" -> SteamAttempts
                         [] p = "csfloat" -> CSFloatAttempts
                         [] OTHER -> {"ok"}
       IN  \E quote \in quotes, elapsed \in waits, outs \in [1..n -> attempts] :
             /\ now + elapsed <= MaxTime
             /\ LET r == CASE p = "skinport" ->
                                 skinport_fetch_cad(IF quote = NoPrice THEN NoPrice
                                                    ELSE skinport_cached(quote, cfg))
                          [] p = "steam" -> steam_fetch_cad(outs, quote, fw.attempts)
                          [] OTHER -> csfloat_fetch_usd_lowest(outs, quote, fw.attempts)
                    st == after_fetch(p, pstate[p], r, fw.now_ts, cfg)
                IN  /\ pstate' = [pstate EXCEPT ![p] = st]
                    /\ now' = now + elapsed
                    /\ waited' = [waited EXCEPT ![p] = 0]
                    /\ cool' = IF /\ r.v = NoPrice
                                  /\ r.reason \in hard_fail_reasons
                                  /\ p # "skinport"
                                  /\ pstate[p].consecutive_hard_failures + 1 >= cfg.fail_threshold
                               THEN [cool EXCEPT ![p] = [on |-> TRUE, consulted |-> fw.now_ts,
                                                        failed |-> now + elapsed]]
                               ELSE cool
                    /\ fw' = IF r.v # NoPrice
                             THEN [fw EXCEPT !.phase = "consult", !.k = fw.k + 1,
                                             !.result = [v |-> returned_price(p, r, cfg),
                                                         provider |-> p,
                                                         reason |-> <<None, "ok">>]]
                             ELSE [fw EXCEPT !.phase = "consult", !.k = fw.k + 1,
                                             !.last_reason = <<p, r.reason>>]
    /\ UNCHANGED <<cfg, rr_index, fetched, runVars>>

\* the request of the consulted provider returns
FwFetchReturn ==
    /\ fw.phase = "fetching"
    /\ LET p == fw.ordered[fw.k]
           n == Max(1, fw.attempts)
           quotes == IF p = "skinport" THEN cfg.raw_prices \cup {NoPrice}
                     ELSE cfg.raw_prices
           waits == IF p = "skinport" THEN {0} ELSE 0..MaxElapsed
           attempts == CASE p = "steam" -> SteamAttempts
                         [] p = "csfloat" -> CSFloatAttempts
                         [] OTHER -> {"ok"}
       IN  \E quote \in quotes, elapsed \in waits, outs \in [1..n -> attempts] :
             /\ now + elapsed <= MaxTime
             /\ LET r == CASE p = "skinport" ->
                                 skinport_fetch_cad(IF quote = NoPrice THEN NoPrice
                                                    ELSE skinport_cached(quote, cfg))
                          [] p = "steam" -> steam_fetch_cad(outs, quote, fw.attempts)
                          [] OTHER -> csfloat_fetch_usd_lowest(outs, quote, fw.attempts)
                    st == after_fetch(p, pstate[p], r, fw.now_ts, cfg)
                IN  /\ pstate' = [pstate EXCEPT ![p] = st]
                    /\ now' = now + elapsed
                    /\ waited' = [waited EXCEPT ![p] = 0]
                    /\ cool' = IF /\ r.v = NoPrice
                                  /\ r.reason \in hard_fail_reasons
                                  /\ p # "skinport"
                                  /\ pstate[p].consecutive_hard_failures + 1 >= cfg.fail_threshold
                               THEN [cool EXCEPT ![p] = [on |-> TRUE, consulted |-> fw.now_ts,
                                                        failed |-> now + elapsed]]
                               ELSE cool
                    /\ fw' = IF r.v # NoPrice
                             THEN [fw EXCEPT !.phase = "returned",
                                             !.result = [v |-> returned_price(p, r, cfg),
                                                         provider |-> p,
                                                         reason |-> <<None, "ok">>]]
                             ELSE [fw EXCEPT !.phase = "consult", !.k = fw.k + 1,
                                             !.last_reason = <<p, r.reason>>]
    /\ UNCHANGED <<cfg, rr_index, fetched, runVars>>

\* (FwExhausted_generic: the reasons of the loop dropped at the return)
FwExhausted_generic ==
    /\ fw.phase = "consult"
    /\ fw.k > Len(fw.ordered)
    /\ fw' = [fw EXCEPT !.phase = "returned",
                        !.result = [v |-> NoPrice, provider |-> None,
                                    reason |-> <<None, "provider_failed">>]]
    /\ UNCHANGED <<cfg, now, pstate, rr_index, cool, waited, fetched, runVars>>

\* the loop ran out of providers (line 1703)
FwExhausted ==
    /\ fw.phase = "consult"
    /\ fw.k > Len(fw.ordered)
    /\ fw' = [fw EXCEPT !.phase = "returned",
                        !.result = [v |-> NoPrice, provider |-> None,
                                    reason |-> IF fw.last_reason # NoReason
                                               THEN fw.last_reason
                                               ELSE <<None, "no_provider">>]]
    /\ UNCHANGED <<cfg, now, pstate, rr_index, cool, waited, fetched, runVars>>

\* ------------------------------------------------------------------
\* The catalog, the skip ledger and the files
\* ------------------------------------------------------------------
Count(b) == CASE b = "cases" -> MaxCases [] b = "keys" -> MaxKeys [] OTHER -> MaxItems

Entries == {e \in ItemTypes \X (1..(MaxCases + MaxKeys + MaxItems)) : e[2] <= Count(e[1])}

\* a missing priceUpdatedAtUtc entry
NoTs == 0 - 1

\* utc_now_iso(): the clock at the time of the call
utc_now_iso(t) == t

Absent == [count |-> 0, reason |-> NoReason, lastAttemptUtc |-> NoTs]

\* (record_skip_lost: the skip not entered in the ledger)
record_skip_lost(sk, e, reason, t) == sk

\* (record_skip_once: the count set to 1 at every skip)
record_skip_once(sk, e, reason, t) ==
    [sk EXCEPT ![e] = [count |-> 1, reason |-> reason,
                       lastAttemptUtc |-> utc_now_iso(t)]]

\* a reason is a pair: the provider that gave it (None when it is not a
\* provider's) and the reason code
record_skip(sk, e, reason, t) ==
    [sk EXCEPT ![e] = [count |-> sk[e].count + 1, reason |-> reason,
                       lastAttemptUtc |-> utc_now_iso(t)]]

\* (clear_skip_kept: the ledger entry left in place)
clear_skip_kept(sk, e) == sk

clear_skip(sk, e) == [sk EXCEPT ![e] = Absent]

RECURSIVE SumSeq(_)
SumSeq(seq) == IF seq = <<>> THEN 0 ELSE Head(seq) + SumSeq(Tail(seq))

clamp(n, lo, hi) == Max(lo, IF hi <= n THEN hi ELSE n)

aggregate_prices(vals, method) ==
    IF vals = <<>> THEN NoPrice
    ELSE IF method = "median"
         THEN LET srt == SortSeq(vals, LAMBDA x, y : x < y)
                  mid == Len(srt) \div 2
              IN  IF Len(srt) % 2 = 0 THEN (srt[mid] + srt[mid + 1]) \div 2
                  ELSE srt[mid + 1]
         ELSE SumSeq(vals) \div Len(vals)

\* (bulk_price_for_any: one source taken for a consensus)
bulk_price_for_any(quotes, c) ==
    LET vals == SelectSeq(quotes, LAMBDA q : q # NoPrice)
        agg == aggregate_prices(vals, c.agg_method)
    IN  IF agg = NoPrice THEN [price |-> NoPrice, n |-> Len(vals)]
        ELSE [price |-> money_round(clamp(agg, c.agg_clamp_min, c.agg_clamp_max)),
              n |-> Len(vals)]

\* bulk_price_for: `quotes` holds, per bulk source, its price for the market
\* name, or NoPrice when the source does not list the name.
bulk_price_for(quotes, c) ==
    LET vals == SelectSeq(quotes, LAMBDA q : q # NoPrice)
        agg == aggregate_prices(vals, c.agg_method)
    IN  IF Len(vals) < c.agg_min_sources THEN [price |-> NoPrice, n |-> Len(vals)]
        ELSE IF agg = NoPrice THEN [price |-> NoPrice, n |-> Len(vals)]
        ELSE [price |-> money_round(clamp(agg, c.agg_clamp_min, c.agg_clamp_max)),
              n |-> Len(vals)]

\* (should_refresh_strict: an entry due only once older than max_age_hours)
should_refresh_strict(updated_iso, max_age_hours, force, existing_price, threshold, t) ==
    IF force THEN TRUE
    ELSE IF threshold # NoPrice /\ existing_price # NoPrice /\ existing_price <= threshold
         THEN TRUE
    ELSE IF updated_iso = NoTs THEN TRUE
    ELSE t - updated_iso > max_age_hours

\* (should_refresh_always: every entry due at every run)
should_refresh_always(updated_iso, max_age_hours, force, existing_price, threshold, t) ==
    TRUE

should_refresh(updated_iso, max_age_hours, force, existing_price, threshold, t) ==
    IF force THEN TRUE
    ELSE IF threshold # NoPrice /\ existing_price # NoPrice /\ existing_price <= threshold
         THEN TRUE
    ELSE IF updated_iso = NoTs THEN TRUE
    ELSE t - updated_iso >= max_age_hours

Abs(x) == IF x < 0 THEN 0 - x ELSE x

\* The pairs of prices one hundredth apart whose difference, computed on
\* IEEE-754 doubles as Python does, reaches the double 0.01:
\* abs(5.03 - 5.02) = 0.010000000000000675, whereas abs(5.01 - 5.02) =
\* abs(5.01 - 5.00) = 0.009999999999999787 and abs(5.00 - 5.01) likewise.
\* (Among the prices of this model: 5.00, 5.01, 5.02, 5.03.)
CentReached == {<<5030, 5020>>, <<5020, 5030>>}

\* the price-change test of lines 1758, 1795, 1867, 1904, 2005, 2045:
\* abs(float(existing) - new_price) >= 0.01 (0.01 is 10)
price_changed(existing, new_price) ==
    IF Abs(existing - new_price) = 10
    THEN <<existing, new_price>> \in CentReached
    ELSE Abs(existing - new_price) > 10

\* (after_entry_uncounted: an entry that could not be priced left out of
\* the skipped counter)
after_entry_uncounted(st, b, kind) ==
    CASE kind = "updated" -> [st EXCEPT ![b]["updated"] = @ + 1]
      [] kind = "unchanged" ->
           [st EXCEPT ![b]["unchanged"] = @ + 1, ![b]["skipped"] = @ + 1]
      [] kind = "fresh" -> [st EXCEPT ![b]["skipped"] = @ + 1]
      [] OTHER -> st

\* stats[...] += 1
tally(st, b, field) == [st EXCEPT ![b][field] = @ + 1]

\* the counters after an entry of bucket b ended as `kind`: an updated entry
\* counts as updated; an unchanged one as unchanged and as skipped; an entry
\* that is fresh or could not be priced as skipped (lines 1730-1767,
\* 1782-1804 and their like for keys and items); an entry without a stored
\* price counts as skipped in the fallback loop only (lines 1719, 1782)
after_entry(st, b, kind) ==
    CASE kind = "updated" -> tally(st, b, "updated")
      [] kind = "unchanged" -> tally(tally(st, b, "unchanged"), b, "skipped")
      [] kind \in {"fresh", "failed"} -> tally(st, b, "skipped")
      [] OTHER -> st

\* (document_bare: the document written without its other fields)
document_bare(pr, up) ==
    [kind |-> "ok", prices |-> pr, updated_at |-> up, meta |-> "None"]

\* the file a checkpoint or the final write leaves: the whole loaded document
document(pr, up) == [kind |-> "ok", prices |-> pr, updated_at |-> up, meta |-> meta]

\* checkpoint_save: the file after the call; a failed write is logged and
\* leaves the file as it was
checkpoint_save(file, data, ok) == IF ok THEN data ELSE file

\* the next value of pc after a return or an exception inside the try block
\* (leave_try_unreleased: the function left without running the finally clause)
leave_try_unreleased == "done"

leave_try == "finally"

Pass1 == ItemTypes
Pass2 == {"cases_fb", "keys_fb", "items_fb"}
bucket_of(where) ==
    CASE where \in {"cases", "cases_fb"} -> "cases"
      [] where \in {"keys", "keys_fb"} -> "keys"
      [] OTHER -> "items"
pass2_of(b) == CASE b = "cases" -> "cases_fb" [] b = "keys" -> "keys_fb" [] OTHER -> "items_fb"
\* after_bucket with the items handled before the keys
after_bucket_swapped(b) ==
    CASE b = "cases" -> "items" [] b = "items" -> "keys" [] OTHER -> "summary"

after_bucket(b) == CASE b = "cases" -> "keys" [] b = "keys" -> "items" [] OTHER -> "summary"

RECURSIVE UpTo(_)
UpTo(n) == IF n <= 0 THEN <<>> ELSE Append(UpTo(n - 1), n)

\* (entry_ids_all: every entry of the catalog taken, in retry mode too)
entry_ids_all(b, c, sk) ==
    LET all == UpTo(Count(b))
    IN  IF b = "items" /\ c.max_items # NoPrice
        THEN SubSeq(all, 1, IF Max(0, c.max_items) < Len(all) THEN Max(0, c.max_items)
                            ELSE Len(all))
        ELSE all

\* (entry_ids_twice: every selected id listed twice)
entry_ids_twice(b, c, sk) ==
    LET all == UpTo(Count(b))
        sel == IF c.retry_skipped
               THEN SelectSeq(all, LAMBDA n : sk[<<b, n>>].count > 0)
               ELSE all
    IN  sel \o sel

\* case_ids, key_ids, item_keys (lines 1708-1710, 1816-1818, 1925-1930)
entry_ids(b, c, sk) ==
    LET all == UpTo(Count(b))
        sel == IF c.retry_skipped
               THEN SelectSeq(all, LAMBDA n : sk[<<b, n>>].count > 0)
               ELSE all
    IN  IF b = "items" /\ c.max_items # NoPrice
        THEN SubSeq(sel, 1, IF Max(0, c.max_items) < Len(sel) THEN Max(0, c.max_items)
                            ELSE Len(sel))
        ELSE sel

\* SingleInstanceLock.acquire: the non-blocking exclusive lock is granted
\* only when no process holds it
\* (acquire_shared: the lock granted whoever holds it)
acquire_shared(owner, p) == [ok |-> TRUE, owner |-> p]

acquire(owner, p) ==
    IF owner = 0 THEN [ok |-> TRUE, owner |-> p] ELSE [ok |-> FALSE, owner |-> owner]

\* SingleInstanceLock.release
release(owner, p) == IF owner = p THEN 0 ELSE owner

\* ------------------------------------------------------------------
\* refresh_once
\* ------------------------------------------------------------------
\* the outcome of the market-name resolution of an entry (lines 1733-1738,
\* 1842-1847, 1956-1986): "ok" or the reason code of the skip
resolve(e, c) == c.resolution[e]

\* first_pass with the live providers tried whatever the aggregator says
first_pass_live(e, c, pr, up, quotes, t) ==
    LET existing == pr[e]
    IN  IF existing = NoPrice THEN [kind |-> "missing_in_prices", price |-> NoPrice]
        ELSE IF ~c.retry_skipped
                /\ ~should_refresh(up[e], c.max_age_hours, c.force, existing,
                                   c.force_price_threshold, t)
             THEN [kind |-> "fresh", price |-> NoPrice]
        ELSE IF resolve(e, c) # "ok" THEN [kind |-> resolve(e, c), price |-> NoPrice]
        ELSE [kind |-> "queued", price |-> NoPrice]

\* One entry of the first pass (lines 1715-1767, 1823-1876, 1936-2014), up to
\* the point where the entry is priced, queued or passed over.
first_pass(e, c, pr, up, quotes, t) ==
    LET existing == pr[e]
        bulk == bulk_price_for(quotes, c)
    IN  IF existing = NoPrice THEN [kind |-> "missing_in_prices", price |-> NoPrice]
        ELSE IF ~c.retry_skipped
                /\ ~should_refresh(up[e], c.max_age_hours, c.force, existing,
                                   c.force_price_threshold, t)
             THEN [kind |-> "fresh", price |-> NoPrice]
        ELSE IF resolve(e, c) # "ok" THEN [kind |-> resolve(e, c), price |-> NoPrice]
        ELSE IF bulk.price # NoPrice THEN [kind |-> "priced", price |-> bulk.price]
        ELSE [kind |-> "queued", price |-> NoPrice]

\* lines 2023 and 2060: whether the loop turn that ends at position n saves a checkpoint
checkpoint_due(b, n, c) ==
    b = "items" /\ c.checkpoint_every_items > 0 /\ n % c.checkpoint_every_items = 0

\* lock.acquire() at line 1310, outside the try block
Acquire ==
    /\ pc = "start"
    /\ LET a == acquire(lock_owner, 1)
       IN  /\ lock_owner' = a.owner
           /\ pc' = IF a.ok THEN "load" ELSE "lock_failed"
    /\ disk_at_start' = [catalog |-> disk_prices, skipped |-> disk_skipped]
    /\ UNCHANGED <<orchVars, lockVars, auxVars, stats, pos, ids, fallback, prices, updated_at, skipped,
                   disk_prices, disk_skipped, disk_backup, exit_code, io_log,
                   examined, settled>>

\* validate_prices_schema: the document holds objects at cases, keys and items
\* (validate_prices_schema_lax: any JSON document accepted)
validate_prices_schema_lax(doc) == TRUE

validate_prices_schema(doc) == doc.kind = "ok"

\* lines 1313-1606: the inputs are read and the providers are set up
Load ==
    /\ pc = "load"
    /\ IF disk_prices.kind \in {"missing", "bad_json"}
       THEN /\ pc' = leave_try
            /\ exit_code' = 2
            /\ UNCHANGED <<prices, updated_at, skipped, pstate, ids, meta>>
       ELSE IF ~validate_prices_schema(disk_prices)
       THEN /\ pc' = leave_try
            /\ exit_code' = 2
            /\ UNCHANGED <<prices, updated_at, skipped, pstate, ids, meta>>
       ELSE /\ prices' = disk_prices.prices
            /\ meta' = disk_prices.meta
            /\ updated_at' = disk_prices.updated_at
            /\ skipped' = disk_skipped
            /\ pstate' = InitialProviderStates(cfg)
            /\ IF cfg.retry_skipped /\ \A e \in Entries : disk_skipped[e].count = 0
               THEN pc' = leave_try /\ exit_code' = 0 /\ ids' = ids
               ELSE /\ pc' = "cases"
                    /\ exit_code' = exit_code
                    /\ ids' = entry_ids("cases", cfg, disk_skipped)
    /\ pos' = 1
    /\ fallback' = <<>>
    /\ UNCHANGED <<cfg, now, rr_index, fw, cool, waited, fetched, disk_prices, disk_skipped,
                   disk_backup, lock_owner, disk_at_start, io_log, examined, settled,
                   lockVars, aw, ncalls, probe, trail, run, rec, call, stats>>

\* what the bulk sources hold for a market name: each lists it with a price
\* or does not; a USD feed is not loaded when there is no FX rate
\* (load_prices, lines 518-521, 627-630, 703-706), so that no source lists
\* anything
bulk_quotes(c) ==
    IF c.bulk_usd /\ c.usd_to_cad = NoPrice
    THEN {[n \in 1..NSources |-> NoPrice]}
    ELSE [1..NSources -> BulkPrices \cup {NoPrice}]

\* one turn of the first loop of a bucket
BulkEntry ==
    /\ pc \in Pass1
    /\ pos <= Len(ids)
    /\ LET b == pc
           e == <<b, ids[pos]>>
       IN  \E quotes \in bulk_quotes(cfg), ok \in BOOLEAN :
             LET r == first_pass(e, cfg, prices, updated_at, quotes, now)
                 changed == price_changed(prices[e], r.price)
                 pr2 == IF r.kind = "priced" /\ changed
                        THEN [prices EXCEPT ![e] = r.price] ELSE prices
                 up2 == IF r.kind = "priced"
                        THEN [updated_at EXCEPT ![e] = utc_now_iso(now)] ELSE updated_at
                 saved == r.kind = "priced" /\ checkpoint_due(b, pos, cfg)
             IN  /\ saved \/ ok
                 /\ prices' = pr2
                 /\ updated_at' = up2
                 /\ skipped' =
                      CASE r.kind = "priced" -> clear_skip(skipped, e)
                        [] r.kind \in {"fresh", "queued"} -> skipped
                        [] OTHER -> record_skip(skipped, e, <<None, r.kind>>, now)
                 /\ fallback' = IF r.kind = "queued" THEN Append(fallback, ids[pos])
                                ELSE fallback
                 /\ disk_prices' = IF saved
                                   THEN checkpoint_save(disk_prices, document(pr2, up2), ok)
                                   ELSE disk_prices
                 /\ io_log' = IF saved
                              THEN Append(io_log, IF ok THEN "checkpoint"
                                                  ELSE "checkpoint_failed")
                              ELSE io_log
                 /\ examined' = Append(examined,
                        [e |-> e, kind |-> r.kind,
                         consensus |-> bulk_price_for(quotes, cfg).price # NoPrice])
                 /\ settled' = IF r.kind = "queued" THEN settled ELSE Append(settled, e)
                 /\ stats' = after_entry(tally(stats, b, "total"), b,
                        CASE r.kind = "priced" ->
                               IF changed THEN "updated" ELSE "unchanged"
                          [] r.kind = "fresh" -> "fresh"
                          [] r.kind \in {"queued", "missing_in_prices"} -> "none"
                          [] OTHER -> "failed")
    /\ pos' = pos + 1
    /\ UNCHANGED <<orchVars, lockVars, auxVars, pc, ids, disk_skipped, disk_backup, lock_owner,
                   exit_code, disk_at_start>>

\* BulkDone with the first loop left after its first turn
BulkDone_early ==
    /\ pc \in Pass1
    /\ pos > 1
    /\ pc' = pass2_of(pc)
    /\ pos' = 1
    /\ UNCHANGED <<orchVars, lockVars, auxVars, stats, ids, fallback, prices, updated_at, skipped,
                   disk_prices, disk_skipped, disk_backup, lock_owner, exit_code,
                   disk_at_start, io_log, examined, settled>>

\* the first loop of a bucket is over: its fallback pass starts
BulkDone ==
    /\ pc \in Pass1
    /\ pos > Len(ids)
    /\ pc' = pass2_of(pc)
    /\ pos' = 1
    /\ UNCHANGED <<orchVars, lockVars, auxVars, stats, ids, fallback, prices, updated_at, skipped, disk_prices,
                   disk_skipped, disk_backup, lock_owner, exit_code, disk_at_start,
                   io_log, examined, settled>>

\* one turn of the fallback loop, up to the call of fetch_with_fallback
FbBegin ==
    /\ pc \in Pass2
    /\ pos <= Len(fallback)
    /\ fw.phase = "idle"
    /\ LET b == bucket_of(pc)
           e == <<b, fallback[pos]>>
       IN  IF prices[e] = NoPrice
           THEN /\ skipped' = record_skip(skipped, e, <<None, "missing_in_prices">>, now)
                /\ pos' = pos + 1
                /\ settled' = Append(settled, e)
                /\ stats' = after_entry(stats, b, "failed")
                /\ UNCHANGED <<orchVars>>
           ELSE \E delay \in 0..MaxElapsed :
                /\ now + delay <= MaxTime
                /\ now' = now + delay
                /\ FwCall(b, e, TRUE)
                /\ UNCHANGED <<cfg, pstate, cool, waited, fetched, skipped, pos, settled,
                               stats>>
    /\ UNCHANGED <<pc, ids, fallback, prices, updated_at, disk_prices, disk_skipped,
                   disk_backup, lock_owner, exit_code, disk_at_start, io_log, examined,
                   lockVars, auxVars>>

\* fetch_with_fallback returned: the rest of the turn of the fallback loop
FbApply ==
    /\ pc \in Pass2
    /\ fw.phase = "returned"
    /\ \E ok \in BOOLEAN :
       LET b == bucket_of(pc)
           e == <<b, fallback[pos]>>
           v == fw.result.v
           pr2 == IF v # NoPrice /\ price_changed(prices[e], v)
                  THEN [prices EXCEPT ![e] = v] ELSE prices
           up2 == IF v # NoPrice THEN [updated_at EXCEPT ![e] = utc_now_iso(now)]
                  ELSE updated_at
           saved == v # NoPrice /\ checkpoint_due(b, pos, cfg)
       IN  /\ saved \/ ok
           /\ prices' = pr2
           /\ updated_at' = up2
           /\ skipped' = IF v = NoPrice
                         THEN record_skip(skipped, e, fw.result.reason, now)
                         ELSE clear_skip(skipped, e)
           /\ disk_prices' = IF saved
                             THEN checkpoint_save(disk_prices, document(pr2, up2), ok)
                             ELSE disk_prices
           /\ io_log' = IF saved
                        THEN Append(io_log, IF ok THEN "checkpoint" ELSE "checkpoint_failed")
                        ELSE io_log
           /\ settled' = Append(settled, e)
           /\ stats' = after_entry(stats, b,
                  IF v = NoPrice THEN "failed"
                  ELSE IF price_changed(prices[e], v) THEN "updated" ELSE "unchanged")
    /\ pos' = pos + 1
    /\ fw' = FwIdle
    /\ UNCHANGED <<cfg, now, pstate, rr_index, cool, waited, fetched, pc, ids, fallback,
                   disk_skipped, disk_backup, lock_owner, exit_code, disk_at_start,
                   examined, lockVars, auxVars>>

\* the fallback loop of a bucket is over: the next bucket, or the summary
FbDone ==
    /\ pc \in Pass2
    /\ pos > Len(fallback)
    /\ fw.phase = "idle"
    /\ pc' = after_bucket(bucket_of(pc))
    /\ ids' = IF after_bucket(bucket_of(pc)) \in ItemTypes
              THEN entry_ids(after_bucket(bucket_of(pc)), cfg, skipped) ELSE <<>>
    /\ fallback' = <<>>
    /\ pos' = 1
    /\ UNCHANGED <<orchVars, lockVars, auxVars, stats, prices, updated_at, skipped, disk_prices, disk_skipped,
                   disk_backup, lock_owner, exit_code, disk_at_start, io_log,
                   examined, settled>>

\* lines 2066-2081: the summary, and the return of a dry run
Summary ==
    /\ pc = "summary"
    /\ IF cfg.dry_run
       THEN pc' = leave_try /\ exit_code' = 0
       ELSE pc' = "save_skipped" /\ exit_code' = exit_code
    /\ UNCHANGED <<orchVars, lockVars, auxVars, stats, pos, ids, fallback, prices, updated_at, skipped,
                   disk_prices, disk_skipped, disk_backup, lock_owner, disk_at_start,
                   io_log, examined, settled>>

\* line 2083
SaveSkipped ==
    /\ pc = "save_skipped"
    /\ disk_skipped' = skipped
    /\ io_log' = Append(io_log, "skipped")
    /\ pc' = "backup"
    /\ UNCHANGED <<orchVars, lockVars, auxVars, stats, pos, ids, fallback, prices, updated_at, skipped,
                   disk_prices, disk_backup, lock_owner, exit_code, disk_at_start,
                   examined, settled>>

\* Backup with the copy left out
Backup_skipped ==
    /\ pc = "backup"
    /\ pc' = "write"
    /\ UNCHANGED <<orchVars, lockVars, auxVars, stats, pos, ids, fallback, prices, updated_at, skipped,
                   disk_prices, disk_skipped, disk_backup, lock_owner, exit_code,
                   disk_at_start, io_log, examined, settled>>

\* lines 2087-2089
Backup ==
    /\ pc = "backup"
    /\ disk_backup' = [exists |-> TRUE, content |-> disk_prices]
    /\ io_log' = Append(io_log, "backup")
    /\ pc' = "write"
    /\ UNCHANGED <<orchVars, lockVars, auxVars, stats, pos, ids, fallback, prices, updated_at, skipped,
                   disk_prices, disk_skipped, lock_owner, exit_code, disk_at_start,
                   examined, settled>>

\* lines 2093-2113
Write ==
    /\ pc = "write"
    /\ disk_prices' = document(prices, updated_at)
    /\ io_log' = Append(io_log, "prices")
    /\ pc' = leave_try
    /\ exit_code' = 0
    /\ UNCHANGED <<orchVars, lockVars, auxVars, stats, pos, ids, fallback, prices, updated_at, skipped,
                   disk_skipped, disk_backup, lock_owner, disk_at_start,
                   examined, settled>>

\* lines 2121-2124: a write of the final stage fails (OSError) and is caught
WriteFails ==
    /\ pc \in {"save_skipped", "backup", "write"}
    /\ pc' = leave_try
    /\ exit_code' = 1
    /\ UNCHANGED <<orchVars, lockVars, auxVars, stats, pos, ids, fallback, prices, updated_at, skipped,
                   disk_prices, disk_skipped, disk_backup, lock_owner, disk_at_start,
                   io_log, examined, settled>>

\* lines 2125-2126
Release ==
    /\ pc = "finally"
    /\ lock_owner' = release(lock_owner, 1)
    /\ pc' = "done"
    /\ UNCHANGED <<orchVars, lockVars, auxVars, stats, pos, ids, fallback, prices, updated_at, skipped,
                   disk_prices, disk_skipped, disk_backup, exit_code, disk_at_start,
                   io_log, examined, settled>>

\* ------------------------------------------------------------------
\* Specification SpecOrch: any sequence of fetch_with_fallback calls of one
\* run, with time passing between them.
\* ------------------------------------------------------------------
BaseConfig ==
    [usd_to_cad |-> 125, skinport_loaded |-> TRUE, steam_cfg_enabled |-> TRUE,
     csfloat_cfg_enabled |-> TRUE, fail_threshold |-> 1, skip_rounds_on_failure |-> 0,
     retries |-> 2, rotation_mode |-> "round_robin", fallback_on_failure |-> TRUE,
     csfloat_use_cases |-> FALSE, csfloat_use_keys |-> FALSE, csfloat_use_items |-> TRUE,
     dry_run |-> FALSE, checkpoint_every_items |-> 0, retry_skipped |-> FALSE,
     force |-> FALSE, max_age_hours |-> 2, force_price_threshold |-> NoPrice,
     max_items |-> NoPrice, agg_method |-> "mean", agg_min_sources |-> 2,
     agg_clamp_min |-> 10, agg_clamp_max |-> 99999990,
     resolution |-> [e \in Entries |-> "ok"],
     raw_prices |-> RawPrices, skinport_prices_are_usd |-> FALSE, bulk_usd |-> FALSE,
     allow_souvenir_auto |-> TRUE, souvenir_prefix |-> "Souvenir "]

\* the other top-level fields of the catalog file (schemaVersion, currency,
\* ...), as one value; NoMeta before a catalog is loaded
CatalogMeta == "fields_of_the_file"
NoMeta == "None"

\* a catalog file in which every entry costs 5.00 and has no timestamp
PlainCatalog(kind) ==
    [kind |-> kind, prices |-> [e \in Entries |-> 5000],
     updated_at |-> [e \in Entries |-> NoTs], meta |-> CatalogMeta]

\* no call of write_json_atomic is running; neither file exists
NoFile == [exists |-> FALSE, content |-> <<>>]
AwIdle == [pc |-> "idle", data |-> <<>>, tmp |-> NoFile, target |-> NoFile]

\* the processes that may run refresh_once on one catalog
Procs == {1, 2}

EmptyLedger == [e \in Entries |-> Absent]

\* the counters of lines 1558-1561, all at 0
ZeroStats ==
    [b \in ItemTypes |-> [total |-> 0, updated |-> 0, unchanged |-> 0, skipped |-> 0]]

\* the first run on the catalog; prev is the exit code of the run before
FirstRun == [n |-> 1, prev |-> NoPrice]

\* reconcile is not running; no function is being looked at
NoRec == [pc |-> "idle"]
NoCall == [fn |-> "None"]

\* bulk_price_for is not being looked at
NoProbe == [quotes |-> <<>>, called |-> FALSE, out |-> [price |-> NoPrice, n |-> 0]]
NoBackup == [exists |-> FALSE, content |-> PlainCatalog("missing")]

\* the part of a state that belongs to the run, before the run
ProcessIdle(where) ==
    /\ pc = where
    /\ pos = 1
    /\ ids = <<>>
    /\ fallback = <<>>
    /\ prices = PlainCatalog("ok").prices
    /\ updated_at = PlainCatalog("ok").updated_at
    /\ skipped = EmptyLedger
    /\ disk_skipped = EmptyLedger
    /\ disk_backup = NoBackup
    /\ lock_owner = 0
    /\ exit_code = NoPrice
    /\ io_log = <<>>
    /\ examined = <<>>
    /\ settled = <<>>
    /\ lpc = [p \in Procs |-> "idle"]
    /\ lwrote = [p \in Procs |-> {}]
    /\ aw = AwIdle
    /\ ncalls = 0
    /\ stats = ZeroStats
    /\ probe = NoProbe
    /\ trail = [e \in Entries |-> <<>>]
    /\ meta = NoMeta
    /\ run = FirstRun
    /\ call = NoCall

RunIdle(where) ==
    /\ ProcessIdle(where)
    /\ rec = NoRec

OrchConfigs ==
    {[BaseConfig EXCEPT !.usd_to_cad = fx, !.skinport_loaded = sk,
                        !.fail_threshold = ft, !.skip_rounds_on_failure = sr] :
        fx \in FxRates \cup {NoPrice}, sk \in BOOLEAN,
        ft \in FailThresholds, sr \in SkipRounds}

OrchInit ==
    /\ cfg \in OrchConfigs
    /\ now = 0
    /\ pstate = InitialProviderStates(cfg)
    /\ rr_index = 0
    /\ fw = FwIdle
    /\ cool = [p \in Providers |-> NoCooldown]
    /\ waited = [p \in Providers |-> 0]
    /\ fetched = {}
    /\ RunIdle("orchestrator")
    /\ disk_prices = PlainCatalog("ok")
    /\ disk_at_start = [catalog |-> disk_prices, skipped |-> disk_skipped]

OrchCall ==
    /\ fw.phase = "idle"
    /\ \E t \in ItemTypes, explicit \in BOOLEAN : FwCall(t, <<t, 0>>, explicit)
    /\ UNCHANGED <<cfg, now, pstate, cool, waited, fetched, runVars>>

OrchReturn ==
    /\ fw.phase = "returned"
    /\ fw' = FwIdle
    /\ fetched' = {}
    /\ UNCHANGED <<cfg, now, pstate, rr_index, cool, waited, runVars>>

\* time passes between two calls (the sleeps of the caller)
TimePasses ==
    /\ fw.phase = "idle"
    /\ now < MaxTime
    /\ now' = now + 1
    /\ UNCHANGED <<cfg, pstate, rr_index, fw, cool, waited, fetched, runVars>>

OrchNext ==
    \/ OrchCall
    \/ FwConsult
    \/ FwFetchReturn
    \/ FwExhausted
    \/ OrchReturn
    \/ TimePasses

SpecOrch == OrchInit /\ [][OrchNext]_vars

\* ------------------------------------------------------------------
\* Specification SpecChain: the calls of fetch_with_fallback made for the
\* entries of the three buckets, cases before keys before items, with and
\* without an explicit order, under the rotation modes and the per-bucket
\* switches of CSFloat.
\* ------------------------------------------------------------------
RotationModes == {"fixed", "round_robin"}
ChainSkipRounds == {0, 2}

ChainConfigs ==
    {[BaseConfig EXCEPT !.rotation_mode = rm, !.fallback_on_failure = fb,
                        !.skip_rounds_on_failure = sr, !.skinport_loaded = sk,
                        !.csfloat_use_cases = TRUE, !.csfloat_use_keys = uk] :
        rm \in RotationModes, fb \in BOOLEAN, sr \in ChainSkipRounds,
        sk \in BOOLEAN, uk \in BOOLEAN}

ChainInit ==
    /\ cfg \in ChainConfigs
    /\ now = MaxTime
    /\ pstate = InitialProviderStates(cfg)
    /\ rr_index = 0
    /\ fw = FwIdle
    /\ cool = [p \in Providers |-> NoCooldown]
    /\ waited = [p \in Providers |-> 0]
    /\ fetched = {}
    /\ RunIdle("cases_fb")
    /\ disk_prices = PlainCatalog("ok")
    /\ disk_at_start = [catalog |-> disk_prices, skipped |-> disk_skipped]

\* a call for an entry of the current bucket; the calls without an explicit
\* order are counted
ChainCall ==
    /\ fw.phase = "idle"
    /\ \E explicit \in BOOLEAN :
        /\ explicit \/ ncalls < MaxCalls
        /\ FwCall(bucket_of(pc), <<bucket_of(pc), 0>>, explicit)
        /\ ncalls' = IF explicit THEN ncalls ELSE ncalls + 1
    /\ UNCHANGED <<cfg, now, pstate, cool, waited, fetched, pc, pos, ids, fallback,
                   prices, updated_at, skipped, disk_prices, disk_skipped,
                   disk_backup, lock_owner, exit_code, disk_at_start, io_log,
                   examined, settled, lockVars, aw, stats, probe, trail, meta, run,
                   rec, call>>

\* the bucket is over: the next bucket
ChainAdvance ==
    /\ fw.phase = "idle"
    /\ bucket_of(pc) # "items"
    /\ pc' = pass2_of(after_bucket(bucket_of(pc)))
    /\ UNCHANGED <<orchVars, pos, ids, fallback, prices, updated_at, skipped,
                   disk_prices, disk_skipped, disk_backup, lock_owner, exit_code,
                   disk_at_start, io_log, examined, settled, lockVars, auxVars, stats>>

ChainNext ==
    \/ ChainCall
    \/ FwConsult
    \/ FwFetchReturn
    \/ FwExhausted
    \/ OrchReturn
    \/ ChainAdvance

SpecChain == ChainInit /\ [][ChainNext]_vars

\* ------------------------------------------------------------------
\* Specification SpecBulk: bulk_price_for on its own, over the bulk sources
\* of a run, for every aggregator configuration.
\* ------------------------------------------------------------------
MaxSources == 3
BulkQuotes == {4, 5000, 5024, 5061}
AggMethods == {"mean", "median"}
AggClamps == {<<10, 99999990>>, <<30, 5050>>}

BulkConfigs ==
    {[BaseConfig EXCEPT !.agg_method = m, !.agg_min_sources = n,
                        !.agg_clamp_min = cl[1], !.agg_clamp_max = cl[2]] :
        m \in AggMethods, n \in 1..MaxSources, cl \in AggClamps}

BulkInit ==
    /\ cfg \in BulkConfigs
    /\ now = 0
    /\ pstate = InitialProviderStates(cfg)
    /\ rr_index = 0
    /\ fw = FwIdle
    /\ cool = [p \in Providers |-> NoCooldown]
    /\ waited = [p \in Providers |-> 0]
    /\ fetched = {}
    /\ RunIdle("bulk")
    /\ disk_prices = PlainCatalog("ok")
    /\ disk_at_start = [catalog |-> disk_prices, skipped |-> disk_skipped]

bulkUnchanged ==
    <<orchVars, pc, pos, ids, fallback, prices, updated_at, skipped, disk_prices,
      disk_skipped, disk_backup, lock_owner, exit_code, disk_at_start, io_log,
      examined, settled, lockVars, aw, ncalls, stats, trail, meta, run, rec, call>>

\* bulk_price_for(market_hash): each source lists the name with a price, or
\* does not list it
BulkCall ==
    /\ ~probe.called
    /\ \E quotes \in [1..MaxSources -> BulkQuotes \cup {NoPrice}] :
          probe' = [quotes |-> quotes, called |-> TRUE,
                    out |-> bulk_price_for(quotes, cfg)]
    /\ UNCHANGED bulkUnchanged

\* the caller goes on to the next market name
BulkNextName ==
    /\ probe.called
    /\ probe' = NoProbe
    /\ UNCHANGED bulkUnchanged

BulkNext ==
    \/ BulkCall
    \/ BulkNextName

SpecBulk == BulkInit /\ [][BulkNext]_vars

\* ------------------------------------------------------------------
\* Specification Spec: one run of refresh_once, alone on its catalog.
\* ------------------------------------------------------------------
CatalogKinds == {"ok", "schema_invalid", "missing", "bad_json"}
CheckpointEvery == {0, 1, 2}

\* what the resolution of the market names gives: every name resolves, or
\* some entries fail (lines 1733-1738, 1842-1847, 1956-1981)
Resolutions ==
    {[e \in Entries |-> "ok"],
     [e \in Entries |-> CASE e = <<"cases", 1>> -> "missing_market_hash"
                          [] e = <<"items", 2>> -> "unknown_item_id"
                          [] OTHER -> "ok"],
     [e \in Entries |-> CASE e = <<"keys", 1>> -> "missing_market_hash"
                          [] e = <<"items", 1>> -> "invalid_item_key"
                          [] e = <<"items", 3>> -> "variant_requires_override"
                          [] OTHER -> "ok"]}

\* a run with Skinport and CSFloat as live providers (Steam is switched off
\* in the configuration file); the last configuration has
\* providers.fallbackOnFailure = false
RunConfigs ==
    {[BaseConfig EXCEPT !.steam_cfg_enabled = FALSE, !.dry_run = d,
                        !.checkpoint_every_items = n, !.retry_skipped = rs,
                        !.resolution = res] :
        d \in BOOLEAN, n \in CheckpointEvery, rs \in BOOLEAN, res \in Resolutions}
    \cup {[BaseConfig EXCEPT !.steam_cfg_enabled = FALSE,
                             !.fallback_on_failure = FALSE]}

Init ==
    /\ cfg \in RunConfigs
    /\ now = MaxTime
    /\ pstate = InitialProviderStates(cfg)
    /\ rr_index = 0
    /\ fw = FwIdle
    /\ cool = [p \in Providers |-> NoCooldown]
    /\ waited = [p \in Providers |-> 0]
    /\ fetched = {}
    /\ RunIdle("start")
    /\ disk_prices \in {PlainCatalog(k) : k \in CatalogKinds}
    /\ disk_at_start = [catalog |-> disk_prices, skipped |-> disk_skipped]

Next ==
    \/ Acquire
    \/ Load
    \/ BulkEntry
    \/ BulkDone
    \/ FbBegin
    \/ FwConsult
    \/ FwFetchReturn
    \/ FwExhausted
    \/ FbApply
    \/ FbDone
    \/ Summary
    \/ SaveSkipped
    \/ Backup
    \/ Write
    \/ WriteFails
    \/ Release

Spec == Init /\ [][Next]_vars

\* ------------------------------------------------------------------
\* Specification SpecLedger: any sequence of record_skip and clear_skip
\* calls on a ledger that starts empty; trail[e] holds the reasons recorded
\* for e since e was last absent.
\* ------------------------------------------------------------------
MaxSkips == 3
LedgerEntries == {<<"cases", 1>>, <<"items", 1>>, <<"items", 2>>}
LedgerReasons == {<<None, "missing_market_hash">>, <<"skinport", "no_price">>}

LedgerInit ==
    /\ cfg = BaseConfig
    /\ now = 0
    /\ pstate = InitialProviderStates(cfg)
    /\ rr_index = 0
    /\ fw = FwIdle
    /\ cool = [p \in Providers |-> NoCooldown]
    /\ waited = [p \in Providers |-> 0]
    /\ fetched = {}
    /\ RunIdle("ledger")
    /\ disk_prices = PlainCatalog("ok")
    /\ disk_at_start = [catalog |-> disk_prices, skipped |-> disk_skipped]

ledgerUnchanged ==
    <<cfg, pstate, rr_index, fw, cool, waited, fetched, pc, pos, ids, fallback,
      prices, updated_at, disk_prices, disk_skipped, disk_backup, lock_owner,
      exit_code, disk_at_start, io_log, examined, settled, lockVars, aw, ncalls,
      stats, probe, meta, run, rec, call>>

\* record_skip(skipped, bucket, key, reason), at some later time
LedgerRecord ==
    /\ \E e \in LedgerEntries, reason \in LedgerReasons, delay \in 0..MaxElapsed :
          /\ Len(trail[e]) < MaxSkips
          /\ now + delay <= MaxTime
          /\ now' = now + delay
          /\ skipped' = record_skip(skipped, e, reason, now')
          /\ trail' = [trail EXCEPT ![e] = Append(@, reason)]
    /\ UNCHANGED ledgerUnchanged

\* clear_skip(skipped, bucket, key)
LedgerClear ==
    /\ \E e \in LedgerEntries :
          /\ skipped' = clear_skip(skipped, e)
          /\ trail' = [trail EXCEPT ![e] = <<>>]
    /\ UNCHANGED <<now, ledgerUnchanged>>

LedgerNext ==
    \/ LedgerRecord
    \/ LedgerClear

SpecLedger == LedgerInit /\ [][LedgerNext]_vars

\* ------------------------------------------------------------------
\* Specification SpecGate: one run of refresh_once on a catalog whose entries
\* differ in price and age, with a skip ledger left by earlier runs, under
\* every setting of force, of the always-refresh threshold and of
\* --retry-skipped.  The clock stands at MaxTime and maxAgeHours is 2.
\* ------------------------------------------------------------------
GateEntry(price, ts) == [price |-> price, ts |-> ts]

\* two catalogs; a price of NoPrice is an entry without a numeric price
GateCatalogA ==
    [e \in Entries |->
        CASE e = <<"cases", 1>> -> GateEntry(5000, NoTs)
          [] e = <<"keys", 1>> -> GateEntry(5010, MaxTime - 2)
          [] e = <<"items", 1>> -> GateEntry(5030, MaxTime - 1)
          [] e = <<"items", 2>> -> GateEntry(5010, MaxTime)
          [] OTHER -> GateEntry(NoPrice, NoTs)]

GateCatalogB ==
    [e \in Entries |->
        CASE e = <<"cases", 1>> -> GateEntry(5010, MaxTime - 1)
          [] e = <<"keys", 1>> -> GateEntry(5030, NoTs)
          [] e = <<"items", 1>> -> GateEntry(5000, MaxTime - 2)
          [] e = <<"items", 2>> -> GateEntry(5020, MaxTime - 3)
          [] OTHER -> GateEntry(5000, MaxTime - 1)]

GateCatalogs ==
    {[kind |-> "ok", prices |-> [e \in Entries |-> cat[e].price],
      updated_at |-> [e \in Entries |-> cat[e].ts], meta |-> CatalogMeta] :
        cat \in {GateCatalogA, GateCatalogB}}

\* the skip ledger read at the start: empty, or left by earlier runs
GateLedger ==
    [e \in Entries |->
        CASE e = <<"cases", 1>> ->
               [count |-> 1, reason |-> <<None, "missing_market_hash">>,
                lastAttemptUtc |-> 1]
          [] e = <<"items", 1>> ->
               [count |-> 2, reason |-> <<"csfloat", "no_price">>, lastAttemptUtc |-> 2]
          [] e = <<"items", 3>> ->
               [count |-> 1, reason |-> <<None, "missing_in_prices">>,
                lastAttemptUtc |-> 2]
          [] OTHER -> Absent]

GateLedgers == {EmptyLedger, GateLedger}

GateThresholds == {NoPrice, 5000}

GateResolutions ==
    {[e \in Entries |-> "ok"],
     [e \in Entries |-> CASE e = <<"cases", 1>> -> "missing_market_hash"
                          [] e = <<"items", 2>> -> "unknown_item_id"
                          [] OTHER -> "ok"]}

GateConfigs ==
    {[BaseConfig EXCEPT !.steam_cfg_enabled = FALSE, !.force = f,
                        !.force_price_threshold = th, !.retry_skipped = rs,
                        !.resolution = res] :
        f \in BOOLEAN, th \in GateThresholds, rs \in BOOLEAN, res \in GateResolutions}

GateInit ==
    /\ cfg \in GateConfigs
    /\ now = MaxTime
    /\ pstate = InitialProviderStates(cfg)
    /\ rr_index = 0
    /\ fw = FwIdle
    /\ cool = [p \in Providers |-> NoCooldown]
    /\ waited = [p \in Providers |-> 0]
    /\ fetched = {}
    /\ pc = "start"
    /\ pos = 1
    /\ ids = <<>>
    /\ fallback = <<>>
    /\ prices = PlainCatalog("ok").prices
    /\ updated_at = PlainCatalog("ok").updated_at
    /\ skipped = EmptyLedger
    /\ disk_prices \in GateCatalogs
    /\ disk_skipped \in GateLedgers
    /\ disk_backup = NoBackup
    /\ lock_owner = 0
    /\ exit_code = NoPrice
    /\ io_log = <<>>
    /\ examined = <<>>
    /\ settled = <<>>
    /\ lpc = [p \in Procs |-> "idle"]
    /\ lwrote = [p \in Procs |-> {}]
    /\ aw = AwIdle
    /\ ncalls = 0
    /\ stats = ZeroStats
    /\ probe = NoProbe
    /\ trail = [e \in Entries |-> <<>>]
    /\ meta = NoMeta
    /\ run = FirstRun
    /\ rec = NoRec
    /\ call = NoCall
    /\ disk_at_start = [catalog |-> disk_prices, skipped |-> disk_skipped]

GateNext ==
    \/ Acquire
    \/ Load
    \/ BulkEntry
    \/ BulkDone
    \/ FbBegin
    \/ FwConsult
    \/ FwFetchReturn
    \/ FwExhausted
    \/ FbApply
    \/ FbDone
    \/ Summary
    \/ SaveSkipped
    \/ Backup
    \/ Write
    \/ WriteFails
    \/ Release

SpecGate == GateInit /\ [][GateNext]_vars

\* ------------------------------------------------------------------
\* Specification SpecTwice: refresh_once run twice in immediate succession
\* (the clock does not move) on one catalog, by two launches of the program,
\* without --force and without --retry-skipped.
\* ------------------------------------------------------------------
\* Skinport is the one live provider
TwiceConfigs ==
    {[BaseConfig EXCEPT !.steam_cfg_enabled = FALSE, !.csfloat_cfg_enabled = FALSE,
                        !.force_price_threshold = th] :
        th \in GateThresholds}

\* the catalog in which one case is fresh and the key and two items are due
TwiceCatalogs == {c \in GateCatalogs : c.updated_at[<<"cases", 1>>] # NoTs}

TwiceInit ==
    /\ cfg \in TwiceConfigs
    /\ now = MaxTime
    /\ pstate = InitialProviderStates(cfg)
    /\ rr_index = 0
    /\ fw = FwIdle
    /\ cool = [p \in Providers |-> NoCooldown]
    /\ waited = [p \in Providers |-> 0]
    /\ fetched = {}
    /\ RunIdle("start")
    /\ disk_prices \in TwiceCatalogs
    /\ disk_at_start = [catalog |-> disk_prices, skipped |-> disk_skipped]

\* the program is launched again once the first run has returned: a new
\* process, with nothing in memory; the files are what the first run left
RunAgain ==
    /\ pc = "done"
    /\ run.n = 1
    /\ run' = [n |-> 2, prev |-> exit_code]
    /\ pc' = "start"
    /\ pos' = 1
    /\ ids' = <<>>
    /\ fallback' = <<>>
    /\ prices' = PlainCatalog("ok").prices
    /\ updated_at' = PlainCatalog("ok").updated_at
    /\ meta' = NoMeta
    /\ skipped' = EmptyLedger
    /\ exit_code' = NoPrice
    /\ io_log' = <<>>
    /\ examined' = <<>>
    /\ settled' = <<>>
    /\ stats' = ZeroStats
    /\ pstate' = InitialProviderStates(cfg)
    /\ rr_index' = 0
    /\ fw' = FwIdle
    /\ cool' = [p \in Providers |-> NoCooldown]
    /\ waited' = [p \in Providers |-> 0]
    /\ fetched' = {}
    /\ disk_at_start' = [catalog |-> disk_prices, skipped |-> disk_skipped]
    /\ UNCHANGED <<cfg, now, disk_prices, disk_skipped, disk_backup, lock_owner,
                   lockVars, aw, ncalls, probe, trail, rec, call>>

TwiceNext ==
    \/ Acquire
    \/ Load
    \/ BulkEntry
    \/ BulkDone
    \/ FbBegin
    \/ FwConsult
    \/ FwFetchReturn
    \/ FwExhausted
    \/ FbApply
    \/ FbDone
    \/ Summary
    \/ SaveSkipped
    \/ Backup
    \/ Write
    \/ WriteFails
    \/ Release
    \/ RunAgain

SpecTwice == TwiceInit /\ [][TwiceNext]_vars

\* ------------------------------------------------------------------
\* Specification SpecFeeds: one run of refresh_once with or without an FX
\* rate, with the Skinport feed and the bulk feeds in CAD or in USD, and
\* with a feed that may hold a negative price.
\* ------------------------------------------------------------------
FeedPrices == {5000, 0 - 1000}

FeedConfigs ==
    {[BaseConfig EXCEPT !.steam_cfg_enabled = FALSE, !.usd_to_cad = fx,
                        !.skinport_prices_are_usd = su, !.bulk_usd = bu,
                        !.raw_prices = FeedPrices] :
        fx \in FxRates \cup {NoPrice}, su \in BOOLEAN, bu \in BOOLEAN}

FeedInit ==
    /\ cfg \in FeedConfigs
    /\ now = MaxTime
    /\ pstate = InitialProviderStates(cfg)
    /\ rr_index = 0
    /\ fw = FwIdle
    /\ cool = [p \in Providers |-> NoCooldown]
    /\ waited = [p \in Providers |-> 0]
    /\ fetched = {}
    /\ RunIdle("start")
    /\ disk_prices \in TwiceCatalogs
    /\ disk_at_start = [catalog |-> disk_prices, skipped |-> disk_skipped]

FeedNext ==
    \/ Acquire
    \/ Load
    \/ BulkEntry
    \/ BulkDone
    \/ FbBegin
    \/ FwConsult
    \/ FwFetchReturn
    \/ FwExhausted
    \/ FbApply
    \/ FbDone
    \/ Summary
    \/ SaveSkipped
    \/ Backup
    \/ Write
    \/ WriteFails
    \/ Release

SpecFeeds == FeedInit /\ [][FeedNext]_vars

\* ------------------------------------------------------------------
\* Specification SpecVariant: the market name of an item key, as the items
\* loop resolves it (lines 1954-1986), for every key, override, display name
\* and variantHandling configuration.  A name is a sequence of the pieces it
\* is put together from; the empty sequence is no name.
\* ------------------------------------------------------------------
NoName == <<>>

\* str.lower() on the pieces that are compared
Lower(x) ==
    CASE x = "Souvenir" -> "souvenir"
      [] x = "SOUVENIR" -> "souvenir"
      [] x = "None" -> "none"
      [] x = "N/A" -> "n/a"
      [] x = "Souvenir " -> "souvenir "
      [] x = "Souv. " -> "souv. "
      [] OTHER -> x

Variants == {"", "None", "N/A", "Souvenir", "SOUVENIR", "Gold"}
Wears == {"None", "Factory New"}
DisplayNames == {NoName, <<"AK-47 | Safari Mesh">>, <<"souvenir ", "Package">>}
Overrides == {NoName, <<"Override Name">>}
SouvenirPrefixes == {"Souvenir ", "Souv. "}

\* parse_item_key: a key of four parts gives (wear, is_st, variant); any
\* other key gives None
ItemKeys ==
    [valid : BOOLEAN, wear : Wears, is_st : BOOLEAN, variant : Variants]

\* build_item_market_hash
build_item_market_hash(display, wear, is_st) ==
    (IF is_st THEN <<"StatTrak ">> ELSE <<>>)
        \o display
        \o (IF wear # "" /\ Lower(wear) \notin {"none", "na", "n/a"}
            THEN <<wear>> ELSE <<>>)

\* market_hash.lower().startswith(prefix.lower())
starts_with(name, prefix) == name # <<>> /\ Lower(Head(name)) = Lower(prefix)

\* (resolve_item_no_auto: the Souvenir prefix never added)
resolve_item_no_auto(key, override, display, c) ==
    IF ~key.valid THEN [kind |-> "invalid_item_key", name |-> NoName]
    ELSE IF /\ key.variant # ""
            /\ Lower(key.variant) \notin {"none", "na", "n/a"}
            /\ override = NoName
            /\ ~(c.allow_souvenir_auto /\ Lower(key.variant) = "souvenir")
         THEN [kind |-> "variant_requires_override", name |-> NoName]
    ELSE IF display = NoName /\ override = NoName
         THEN [kind |-> "unknown_item_id", name |-> NoName]
    ELSE [kind |-> "ok",
          name |-> IF override # NoName THEN override
                   ELSE build_item_market_hash(display, key.wear, key.is_st)]

\* lines 1956-1986: the market name under which the entry is looked up, or
\* the reason for which it is skipped
resolve_item(key, override, display, c) ==
    IF ~key.valid THEN [kind |-> "invalid_item_key", name |-> NoName]
    ELSE LET variant_norm == Lower(key.variant)
             needs == /\ key.variant # ""
                      /\ variant_norm \notin {"none", "na", "n/a"}
                      /\ override = NoName
             auto == needs /\ c.allow_souvenir_auto /\ variant_norm = "souvenir"
             market_hash == IF override # NoName THEN override
                            ELSE build_item_market_hash(display, key.wear, key.is_st)
         IN  IF needs /\ ~auto
             THEN [kind |-> "variant_requires_override", name |-> NoName]
             ELSE IF display = NoName /\ override = NoName
             THEN [kind |-> "unknown_item_id", name |-> NoName]
             ELSE IF auto /\ ~starts_with(market_hash, c.souvenir_prefix)
             THEN [kind |-> "ok", name |-> <<c.souvenir_prefix>> \o market_hash]
             ELSE [kind |-> "ok", name |-> market_hash]

VariantConfigs ==
    {[BaseConfig EXCEPT !.allow_souvenir_auto = a, !.souvenir_prefix = sp] :
        a \in BOOLEAN, sp \in SouvenirPrefixes}

VariantInit ==
    /\ cfg \in VariantConfigs
    /\ now = 0
    /\ pstate = InitialProviderStates(cfg)
    /\ rr_index = 0
    /\ fw = FwIdle
    /\ cool = [p \in Providers |-> NoCooldown]
    /\ waited = [p \in Providers |-> 0]
    /\ fetched = {}
    /\ RunIdle("items")
    /\ disk_prices = PlainCatalog("ok")
    /\ disk_at_start = [catalog |-> disk_prices, skipped |-> disk_skipped]

\* the turn of the items loop for the first item, from parse_item_key to
\* the call of bulk_price_for: the entry is skipped with a reason, or its
\* name is handed to the lookup
VariantTurn ==
    /\ call = NoCall
    /\ \E key \in ItemKeys, override \in Overrides, display \in DisplayNames :
          LET out == resolve_item(key, override, display, cfg)
          IN  /\ call' = [fn |-> "resolve_item", key |-> key, override |-> override,
                          display |-> display, out |-> out,
                          looked_up |-> IF out.kind = "ok" THEN out.name ELSE NoName]
              /\ skipped' = IF out.kind = "ok" THEN skipped
                            ELSE record_skip(skipped, <<"items", 1>>,
                                             <<None, out.kind>>, now)
              /\ stats' = IF out.kind = "ok" THEN stats
                          ELSE tally(stats, "items", "skipped")
    /\ UNCHANGED <<orchVars, pc, pos, ids, fallback, prices, updated_at, disk_prices,
                   disk_skipped, disk_backup, lock_owner, exit_code, disk_at_start,
                   io_log, examined, settled, lockVars, aw, ncalls, probe, trail,
                   meta, run, rec>>

VariantNext ==
    \/ VariantTurn

SpecVariant == VariantInit /\ [][VariantNext]_vars

\* ------------------------------------------------------------------
\* Specification SpecReconcile: reconcile() of reconcile.py over the
\* inventories file and the user links, one step per Discord user of the
\* loop, for every order of the users.
\* ------------------------------------------------------------------
Users == {"discord_1", "discord_2"}
Identities == {"twitch:a", "youtube:b"}
\* inventories of the file, and the ids uuid4 may produce
FileInvIds == {"inv_1", "inv_2"}
FreshInvIds == {"inv_8", "inv_9"}
InvIds == FileInvIds \cup FreshInvIds
\* the order of the id strings
IdRank == [id \in InvIds |->
            CASE id = "inv_1" -> 1 [] id = "inv_2" -> 2
              [] id = "inv_8" -> 3 [] id = "inv_9" -> 4]

CreatedAts == {1, 2}
\* now_iso_utc() at the start of the call, later than any createdAt
NowIso == 3
\* created_at_key of an inventory without createdAt: "9999-12-31T..."
NoCreatedAt == 9999

NoInventory ==
    [exists |-> FALSE, createdAt |-> NoCreatedAt, cases |-> 0, identities |-> {},
     mergedInto |-> None]

\* create_empty_inventory
create_empty_inventory(created_at) ==
    [exists |-> TRUE, createdAt |-> created_at, cases |-> 0, identities |-> {},
     mergedInto |-> None]

\* the key of min(): (created_at_key, inv_id)
Older(inv, a, b) ==
    \/ inv[a].createdAt < inv[b].createdAt
    \/ inv[a].createdAt = inv[b].createdAt /\ IdRank[a] <= IdRank[b]

canonical_of(inv, candidates) ==
    CHOOSE c \in candidates : \A d \in candidates : Older(inv, c, d)

\* lines 221-252: the other candidates are merged into the canonical
\* inventory and left as stubs
merge_into(inv, canonical_id, candidates) ==
    LET others == candidates \ {canonical_id}
        RECURSIVE Sum(_)
        Sum(S) == IF S = {} THEN 0
                  ELSE LET x == CHOOSE y \in S : TRUE
                       IN  inv[x].cases + Sum(S \ {x})
    IN  [id \in InvIds |->
            IF id = canonical_id
            THEN [inv[id] EXCEPT
                    !.cases = @ + Sum(others),
                    !.identities = @ \cup UNION {inv[o].identities : o \in others}]
            ELSE IF id \in others
            THEN [inv[id] EXCEPT !.cases = 0, !.identities = {},
                                 !.mergedInto = canonical_id]
            ELSE inv[id]]

\* the inventories file and the user links before the call: every
\* inventory is live (mergedInto null) and lists the identities the
\* identity index gives it
ReconcileInput(present, created, ii, di, li, lv, order) ==
     [pc |-> "loop",
      inv |-> [id \in InvIds |->
                 IF id \in present
                 THEN [exists |-> TRUE, createdAt |-> created[id], cases |-> 1,
                       identities |-> {i \in Identities : ii[i] = id},
                       mergedInto |-> None]
                 ELSE NoInventory],
      identity_index |-> ii,
      discord_index |-> di,
      links |-> [u \in Users |-> [identities |-> li[u], inventoryId |-> lv[u]]],
      todo |-> order,
      at_start |-> present,
      last_modified |-> 0]

ReconcileInit ==
    /\ cfg = BaseConfig
    /\ now = 0
    /\ pstate = InitialProviderStates(cfg)
    /\ rr_index = 0
    /\ fw = FwIdle
    /\ cool = [p \in Providers |-> NoCooldown]
    /\ waited = [p \in Providers |-> 0]
    /\ fetched = {}
    /\ ProcessIdle("idle")
    /\ disk_prices = PlainCatalog("ok")
    /\ disk_at_start = [catalog |-> disk_prices, skipped |-> disk_skipped]
    /\ \E present \in SUBSET FileInvIds :
       \E created \in [FileInvIds -> CreatedAts],
          ii \in [Identities -> present \cup {None}],
          di \in [Users -> present \cup {None}],
          li \in [Users -> SUBSET Identities],
          lv \in [Users -> present \cup {None}],
          order \in {<<"discord_1", "discord_2">>, <<"discord_2", "discord_1">>} :
            rec = ReconcileInput(present, created, ii, di, li, lv, order)

reconcileUnchanged ==
    <<orchVars, pc, pos, ids, fallback, prices, updated_at, skipped, disk_prices,
      disk_skipped, disk_backup, lock_owner, exit_code, disk_at_start, io_log,
      examined, settled, lockVars, aw, ncalls, stats, probe, trail, meta, run, call>>

\* one turn of the loop over users_map (lines 182-269)
ReconcileUser ==
    /\ rec.pc = "loop"
    /\ rec.todo # <<>>
    /\ LET discord_id == Head(rec.todo)
           entry == rec.links[discord_id]
           identities == entry.identities
           indexed == rec.discord_index[discord_id]
           \* lines 192-200: the index repaired from the entry's inventoryId
           fixed == IF indexed = None /\ entry.inventoryId # None
                       /\ rec.inv[entry.inventoryId].exists
                    THEN entry.inventoryId ELSE indexed
           create == fixed = None \/ ~rec.inv[fixed].exists
       IN  \E fresh \in FreshInvIds :
             /\ ~rec.inv[fresh].exists
             /\ LET discord_inv_id == IF create THEN fresh ELSE fixed
                    inv1 == IF create
                            THEN [rec.inv EXCEPT ![fresh] = create_empty_inventory(NowIso)]
                            ELSE rec.inv
                    candidates ==
                        {discord_inv_id} \cup
                        {rec.identity_index[i] : i \in
                            {j \in identities : /\ rec.identity_index[j] # None
                                                /\ inv1[rec.identity_index[j]].exists}}
                    canonical_id == canonical_of(inv1, candidates)
                    inv2 == merge_into(inv1, canonical_id, candidates)
                IN  rec' = [rec EXCEPT
                        !.inv = [inv2 EXCEPT ![canonical_id].identities =
                                                @ \cup identities],
                        !.identity_index =
                            [i \in Identities |->
                                IF i \in identities THEN canonical_id ELSE @[i]],
                        !.discord_index = [@ EXCEPT ![discord_id] = canonical_id],
                        !.links = [@ EXCEPT ![discord_id].inventoryId = canonical_id],
                        !.todo = Tail(@)]
    /\ UNCHANGED reconcileUnchanged

\* lines 271-274: the loop is over
ReconcileReturn ==
    /\ rec.pc = "loop"
    /\ rec.todo = <<>>
    /\ rec' = [rec EXCEPT !.pc = "done", !.last_modified = NowIso]
    /\ UNCHANGED reconcileUnchanged

ReconcileNext ==
    \/ ReconcileUser
    \/ ReconcileReturn

SpecReconcile == ReconcileInit /\ [][ReconcileNext]_vars

\* ------------------------------------------------------------------
\* Specification SpecLock: two processes run refresh_once on one catalog,
\* again and again, in any interleaving.  Of a run only the lock and the
\* file writes are kept: lpc is the stage of the run, lwrote the files the
\* run has written.
\* ------------------------------------------------------------------
Files == {"checkpoint", "skipped", "backup", "prices"}
InTry == {"loops", "save_skipped", "backup", "write"}

LockInit ==
    /\ cfg \in {[BaseConfig EXCEPT !.dry_run = d] : d \in BOOLEAN}
    /\ now = 0
    /\ pstate = InitialProviderStates(cfg)
    /\ rr_index = 0
    /\ fw = FwIdle
    /\ cool = [p \in Providers |-> NoCooldown]
    /\ waited = [p \in Providers |-> 0]
    /\ fetched = {}
    /\ RunIdle("two_processes")
    /\ disk_prices = PlainCatalog("ok")
    /\ disk_at_start = [catalog |-> disk_prices, skipped |-> disk_skipped]

lockUnchanged ==
    <<orchVars, auxVars, stats, pc, pos, ids, fallback, prices, updated_at, skipped, disk_prices,
      disk_skipped, disk_backup, exit_code, disk_at_start, io_log, examined, settled>>

\* a process calls refresh_once: a new launch (main), or the next cycle of
\* daemon_loop after a run that returned
LStart(p) ==
    /\ lpc[p] \in {"idle", "done", "lock_failed"}
    /\ lpc' = [lpc EXCEPT ![p] = "start"]
    /\ lwrote' = [lwrote EXCEPT ![p] = {}]
    /\ UNCHANGED <<lockUnchanged, lock_owner>>

\* lock.acquire() at line 1310: RuntimeError leaves refresh_once at once
LAcquire(p) ==
    /\ lpc[p] = "start"
    /\ LET a == acquire(lock_owner, p)
       IN  /\ lock_owner' = a.owner
           /\ lpc' = [lpc EXCEPT ![p] = IF a.ok THEN "loops" ELSE "lock_failed"]
    /\ UNCHANGED <<lockUnchanged, lwrote>>

\* lines 2023-2024, 2060-2061: a checkpoint of the items loops
LCheckpoint(p) ==
    /\ lpc[p] = "loops"
    /\ lwrote' = [lwrote EXCEPT ![p] = @ \cup {"checkpoint"}]
    /\ UNCHANGED <<lockUnchanged, lock_owner, lpc>>

\* lines 2066-2081: the loops are over
LSummary(p) ==
    /\ lpc[p] = "loops"
    /\ lpc' = [lpc EXCEPT ![p] = IF cfg.dry_run THEN leave_try ELSE "save_skipped"]
    /\ UNCHANGED <<lockUnchanged, lock_owner, lwrote>>

\* lines 2083-2094: the ledger, the backup and the catalog are written, in this order
LFinalWrite(p) ==
    /\ lpc[p] \in {"save_skipped", "backup", "write"}
    /\ lwrote' = [lwrote EXCEPT ![p] =
                     @ \cup {CASE lpc[p] = "save_skipped" -> "skipped"
                               [] lpc[p] = "backup" -> "backup"
                               [] OTHER -> "prices"}]
    /\ lpc' = [lpc EXCEPT ![p] = CASE lpc[p] = "save_skipped" -> "backup"
                                   [] lpc[p] = "backup" -> "write"
                                   [] OTHER -> leave_try]
    /\ UNCHANGED <<lockUnchanged, lock_owner>>

\* an early return or an exception inside the try block (lines 1313-1316,
\* 1468-1470, 2115-2124)
LLeave(p) ==
    /\ lpc[p] \in InTry
    /\ lpc' = [lpc EXCEPT ![p] = leave_try]
    /\ UNCHANGED <<lockUnchanged, lock_owner, lwrote>>

\* lines 2125-2126
LRelease(p) ==
    /\ lpc[p] = "finally"
    /\ lock_owner' = release(lock_owner, p)
    /\ lpc' = [lpc EXCEPT ![p] = "done"]
    /\ UNCHANGED <<lockUnchanged, lwrote>>

LockNext ==
    \/ \E p \in Procs : LStart(p)
    \/ \E p \in Procs : LAcquire(p)
    \/ \E p \in Procs : LCheckpoint(p)
    \/ \E p \in Procs : LSummary(p)
    \/ \E p \in Procs : LFinalWrite(p)
    \/ \E p \in Procs : LLeave(p)
    \/ \E p \in Procs : LRelease(p)

SpecLock == LockInit /\ [][LockNext]_vars

\* ------------------------------------------------------------------
\* Specification SpecAtomic: calls of write_json_atomic on one path, one
\* after the other, the process crashing at any step; a later process
\* calls it again.  A document is the sequence of the chunks json.dump
\* writes, followed by the newline (0).
\* ------------------------------------------------------------------
Doc(n) == [k \in 1..DocChunks |-> n] \o <<0>>
Docs == {Doc(n) : n \in 1..MaxDocs}

\* where the call stands once the temp file holds `content`
\* (aw_next_early: the rename done before the document is written out)
aw_next_early(content, data) == IF Len(content) >= 1 THEN "replace" ELSE "write"

aw_next(content, data) == IF content = data THEN "replace" ELSE "write"

AtomicInit ==
    /\ cfg = BaseConfig
    /\ now = 0
    /\ pstate = InitialProviderStates(cfg)
    /\ rr_index = 0
    /\ fw = FwIdle
    /\ cool = [p \in Providers |-> NoCooldown]
    /\ waited = [p \in Providers |-> 0]
    /\ fetched = {}
    /\ RunIdle("write_json_atomic")
    /\ disk_prices = PlainCatalog("ok")
    /\ disk_at_start = [catalog |-> disk_prices, skipped |-> disk_skipped]

awUnchanged == <<orchVars, pc, pos, ids, fallback, prices, updated_at, skipped,
                 disk_prices, disk_skipped, disk_backup, lock_owner, exit_code,
                 disk_at_start, io_log, examined, settled, lockVars, ncalls, stats,
                 probe, trail, meta, run, rec, call>>

\* write_json_atomic(path, data) is called (by a process that did not crash,
\* or by a later process)
AwCall ==
    /\ aw.pc \in {"idle", "done", "crashed"}
    /\ \E d \in Docs : aw' = [aw EXCEPT !.pc = "open", !.data = d]
    /\ UNCHANGED awUnchanged

\* line 76: open(tmp_path, "w") creates the temp file or empties it
AwOpen ==
    /\ aw.pc = "open"
    /\ aw' = [aw EXCEPT !.pc = "write", !.tmp = [exists |-> TRUE, content |-> <<>>]]
    /\ UNCHANGED awUnchanged

\* lines 77-78: json.dump and the newline reach the temp file chunk by chunk
AwWrite ==
    /\ aw.pc = "write"
    /\ LET content == Append(aw.tmp.content, aw.data[Len(aw.tmp.content) + 1])
       IN  aw' = [aw EXCEPT !.pc = aw_next(content, aw.data),
                            !.tmp = [exists |-> TRUE, content |-> content]]
    /\ UNCHANGED awUnchanged

\* line 79: os.replace(tmp_path, path)
AwReplace ==
    /\ aw.pc = "replace"
    /\ aw' = [aw EXCEPT !.pc = "done", !.target = aw.tmp, !.tmp = NoFile]
    /\ UNCHANGED awUnchanged

\* the process dies between two steps of the call
AwCrash ==
    /\ aw.pc \in {"open", "write", "replace"}
    /\ aw' = [aw EXCEPT !.pc = "crashed"]
    /\ UNCHANGED awUnchanged

AtomicNext ==
    \/ AwCall
    \/ AwOpen
    \/ AwWrite
    \/ AwReplace
    \/ AwCrash

SpecAtomic == AtomicInit /\ [][AtomicNext]_vars

\* ------------------------------------------------------------------
\* Claims on the provider state machine and the orchestrator (SpecOrch)
\* ------------------------------------------------------------------

\* C2 (as stated): once hard failures have brought a provider to the
\* threshold, is_available is false at every time strictly before the time
\* of that failure + cooldownSeconds.
C2_CooldownFromFailureTime ==
    \A p \in Providers :
        (cool[p].on /\ now < cool[p].failed + CooldownSeconds)
            => ~is_available(pstate[p], now).ok

\* C2 (amended): once hard failures have brought a provider to the threshold,
\* cooldownUntil is the time at which the provider was consulted for the
\* failing fetch (before the request and its sleeps) + cooldownSeconds;
\* is_available is false at every time strictly before cooldownUntil, and
\* at any time >= cooldownUntil it returns true and leaves
\* consecutiveHardFailures = 0 and cooldownUntil = 0.
C2_CooldownFromConsultTime ==
    \A p \in Providers :
        cool[p].on =>
            LET until == cool[p].consulted + CooldownSeconds
                r == is_available(pstate[p], now)
            IN  /\ pstate[p].cooldown_until = until
                /\ now < until => ~r.ok
                /\ now >= until => /\ r.ok
                                   /\ r.st.consecutive_hard_failures = 0
                                   /\ r.st.cooldown_until = 0

\* C2 witness: a provider that reached a threshold of 2 and whose cooldown
\* has run out, before is_available is called again.
C2_Witness ==
    \E p \in Providers :
        /\ cool[p].on
        /\ cfg.fail_threshold = 2
        /\ now >= cool[p].consulted + CooldownSeconds
        /\ cool[p].failed > cool[p].consulted

ClaimedHardReasons == {"rate_limited", "http_error", "network_error", "unauthorized"}

\* the step is the return of a failed fetch of provider p
FailedFetchStep(p) ==
    /\ fw.phase = "fetching"
    /\ fw.ordered[fw.k] = p
    /\ fw'.phase = "consult"
    /\ fw'.last_reason[1] = p

\* C3: a provider fetch that fails with no_price changes neither the
\* provider's cooldownUntil nor its consecutiveHardFailures; the counter
\* grows or a cooldown starts only in a step that is a failed fetch with
\* reason rate_limited, http_error, network_error or unauthorized.
C3_SoftFailureNeverCools ==
    [][\A p \in Providers :
        /\ (FailedFetchStep(p) /\ fw'.last_reason[2] = "no_price")
              => /\ pstate'[p].cooldown_until = pstate[p].cooldown_until
                 /\ pstate'[p].consecutive_hard_failures
                        = pstate[p].consecutive_hard_failures
        /\ (\/ pstate'[p].consecutive_hard_failures > pstate[p].consecutive_hard_failures
            \/ pstate'[p].cooldown_until > pstate[p].cooldown_until)
              => (FailedFetchStep(p) /\ fw'.last_reason[2] \in ClaimedHardReasons)
      ]_vars

\* C3 witness: a fetch of Steam has just failed with no_price while Steam
\* had one hard failure on its counter, and the counter is still one.
C3_Witness ==
    /\ fw.phase = "consult"
    /\ fw.k > 1
    /\ fw.last_reason = <<"steam", "no_price">>
    /\ pstate["steam"].consecutive_hard_failures = 1

\* ------------------------------------------------------------------
\* Claims on one run of refresh_once (Spec) and on the lock (SpecLock)
\* ------------------------------------------------------------------
ExaminedSet == {examined[n].e : n \in 1..Len(examined)}
SettledSet == InSeq(settled)
QueuedSet == {examined[n].e : n \in {m \in 1..Len(examined) : examined[m].kind = "queued"}}
Rank(b) == CASE b = "cases" -> 1 [] b = "keys" -> 2 [] OTHER -> 3

\* C1: in a dry run the catalog file and the skip ledger file are, at every
\* point of the run and at its end, what they were when the run started.
C1_DryRunWritesNothing ==
    cfg.dry_run =>
        /\ disk_prices = disk_at_start.catalog
        /\ disk_skipped = disk_at_start.skipped

\* a process is between a successful acquire and its release
Holding(p) == lpc[p] \in InTry \cup {"finally"}

\* C4: of two processes running refresh_once on the same catalog, at most
\* one is between a successful acquire and its release, and a process whose
\* acquire failed has written no file in that run.
C4_LockPreventsOverlap ==
    /\ \A p, q \in Procs : (p # q /\ Holding(p)) => ~Holding(q)
    /\ \A p \in Procs : Holding(p) => lock_owner = p
    /\ \A p \in Procs : lpc[p] = "lock_failed" => lwrote[p] = {}

\* C4 witness: process 1 holds the lock and has saved a checkpoint and the
\* ledger, while the acquire of process 2 has failed.
C4_Witness ==
    /\ lpc[1] = "backup"
    /\ lwrote[1] = {"checkpoint", "skipped"}
    /\ lpc[2] = "lock_failed"

\* C5: when refresh_once, having acquired the lock, has ended (by whatever
\* path), the lock is not held and an acquire by another process succeeds.
C5_LockReleasedOnExit ==
    pc = "done" => /\ lock_owner = 0
                   /\ acquire(lock_owner, 2).ok

\* C5 witness: a run that ended on an exception of its final writes, after
\* it had saved a checkpoint.
C5_Witness ==
    /\ pc = "done"
    /\ exit_code = 1
    /\ io_log # <<>>
    /\ lock_owner = 0

\* C6: a live fetch is issued for an entry only if the first pass went
\* through the entry before and the aggregator had no consensus for it; no
\* entry for which the aggregator had a consensus is ever fetched live.
C6_BulkBeforeLive ==
    /\ \A e \in fetched :
          \E n \in 1..Len(examined) : examined[n].e = e /\ ~examined[n].consensus
    /\ \A n \in 1..Len(examined) :
          examined[n].consensus => examined[n].e \notin fetched

\* C6 witness: one item was priced by the aggregator, another was fetched
\* live and priced by Skinport.
C6_Witness ==
    /\ \E n \in 1..Len(examined) : examined[n].e = <<"items", 1>> /\ examined[n].consensus
    /\ <<"items", 2>> \in fetched
    /\ <<"items", 2>> \in SettledSet
    /\ prices[<<"items", 2>>] = 5020

\* the entries of bucket b in the order in which the first pass queued them
QueuedOrder(b) ==
    LET q == SelectSeq(examined, LAMBDA r : r.e[1] = b /\ r.kind = "queued")
    IN  [n \in 1..Len(q) |-> q[n].e]
\* the queued entries of bucket b in the order in which the fallback pass took them
Pass2Order(b) == SelectSeq(settled, LAMBDA e : e[1] = b /\ e \in QueuedSet)

\* C7: while fetch_with_fallback runs for an entry, every entry of its
\* bucket has gone through the first pass; and the fallback pass takes the
\* queued entries of a bucket in the order in which the first pass queued them.
C7_PassesNotInterleaved ==
    /\ fw.phase # "idle" =>
          \A e \in Entries : e[1] = fw.entry[1] => e \in ExaminedSet
    /\ \A b \in ItemTypes :
          /\ Len(Pass2Order(b)) <= Len(QueuedOrder(b))
          /\ Pass2Order(b) = SubSeq(QueuedOrder(b), 1, Len(Pass2Order(b)))
          /\ (fw.phase # "idle" /\ fw.entry[1] = b) =>
                /\ Len(Pass2Order(b)) < Len(QueuedOrder(b))
                /\ fw.entry = QueuedOrder(b)[Len(Pass2Order(b)) + 1]

\* C7 witness: items 1 and 3 were queued (item 2 was priced by the
\* aggregator), item 1 is done and fetch_with_fallback runs for item 3.
C7_Witness ==
    /\ QueuedOrder("items") = << <<"items", 1>>, <<"items", 3>> >>
    /\ Pass2Order("items") = << <<"items", 1>> >>
    /\ fw.phase = "fetching"
    /\ fw.entry = <<"items", 3>>

\* C8: when an entry of a bucket has been examined, every entry of the
\* buckets before it (cases, then keys, then items) is through both passes;
\* the entries are examined, and done, bucket after bucket.
C8_BucketsInSequence ==
    /\ \A e1, e2 \in Entries :
          (Rank(e1[1]) < Rank(e2[1]) /\ e2 \in ExaminedSet) => e1 \in SettledSet
    /\ \A m, n \in 1..Len(examined) :
          m < n => Rank(examined[m].e[1]) <= Rank(examined[n].e[1])
    /\ \A m, n \in 1..Len(settled) :
          m < n => Rank(settled[m][1]) <= Rank(settled[n][1])
    /\ fw.phase # "idle" =>
          \A e \in ExaminedSet : Rank(e[1]) <= Rank(fw.entry[1])

\* C8 witness: the case and the key went through the fallback pass and the
\* first item has been examined.
C8_Witness ==
    /\ <<"cases", 1>> \in QueuedSet
    /\ <<"keys", 1>> \in QueuedSet
    /\ <<"items", 1>> \in ExaminedSet
    /\ pc = "items"

\* the item entries whose loaded record is not the record in the catalog file
Unsaved ==
    {e \in Entries : /\ e[1] = "items"
                     /\ \/ prices[e] # disk_prices.prices[e]
                        \/ updated_at[e] # disk_prices.updated_at[e]}

\* C9: during the items processing with checkpointEveryItems = N > 0 (and
\* no checkpoint write having failed), at most N item entries have been
\* processed since the catalog was last written to disk.
C9_CheckpointBoundsLostWork ==
    (/\ cfg.checkpoint_every_items > 0
     /\ pc \in {"items", "items_fb"}
     /\ "checkpoint_failed" \notin InSeq(io_log))
        => Cardinality(Unsaved) <= cfg.checkpoint_every_items

\* C10 (as stated): in a run that is not a dry run no write of the catalog
\* file precedes the backup, and the backup holds the catalog file of the
\* start of the run.
C10_BackupBeforeAnyWrite ==
    ~cfg.dry_run =>
        /\ \A n \in 1..Len(io_log) :
              io_log[n] \in {"checkpoint", "prices"}
                  => \E m \in 1..(n - 1) : io_log[m] = "backup"
        /\ disk_backup.exists => disk_backup.content = disk_at_start.catalog

\* C10 (amended): in a run that is not a dry run the final write of the
\* catalog file is preceded by the backup; the backup holds the catalog
\* file as it was right before the final write, which is the file of the
\* start of the run when no checkpoint was saved before.
C10_BackupBeforeFinalWrite ==
    ~cfg.dry_run =>
        /\ \A n \in 1..Len(io_log) :
              io_log[n] = "prices" => \E m \in 1..(n - 1) : io_log[m] = "backup"
        /\ pc = "write" => /\ disk_backup.exists
                           /\ disk_backup.content = disk_prices
        /\ (disk_backup.exists /\ "checkpoint" \notin InSeq(io_log))
              => disk_backup.content = disk_at_start.catalog

\* C10 witness: a run that saved a checkpoint, then took its backup and
\* wrote the catalog; the backup is not the catalog of the start of the run.
C10_Witness ==
    /\ ~cfg.dry_run
    /\ pc = "done"
    /\ exit_code = 0
    /\ "checkpoint" \in InSeq(io_log)
    /\ io_log[Len(io_log)] = "prices"
    /\ disk_backup.exists
    /\ disk_backup.content # disk_at_start.catalog

\* C11: whatever the step of write_json_atomic at which the process may
\* crash, the target path holds no file (none was ever written), or a
\* complete document: the previous one, or the one being written.
C11_WriteIsAtomic ==
    /\ [](aw.target.exists => aw.target.content \in Docs)
    /\ [][aw'.target # aw.target => aw'.target.content = aw.data]_vars

\* C11 witness: the process crashed with the temp file half written, while
\* the target holds the complete document of an earlier call.
C11_Witness ==
    /\ aw.pc = "crashed"
    /\ aw.tmp.exists
    /\ Len(aw.tmp.content) = 1
    /\ aw.target.exists
    /\ aw.target.content \in Docs
    /\ aw.target.content # aw.data

\* C12: a run whose catalog lacks cases, keys or items (or holds a
\* non-object there) writes no file, takes no backup, issues no provider
\* fetch, never enters the loops, and ends with exit code 2.
C12_SchemaInvalidAborts ==
    disk_at_start.catalog.kind = "schema_invalid" =>
        /\ pc \in {"start", "load", "finally", "done"}
        /\ io_log = <<>>
        /\ fetched = {}
        /\ examined = <<>>
        /\ disk_prices = disk_at_start.catalog
        /\ disk_skipped = disk_at_start.skipped
        /\ ~disk_backup.exists
        /\ pc \in {"finally", "done"} => exit_code = 2

\* C12 witness: a run on a schema-invalid catalog has ended.
C12_Witness ==
    /\ disk_at_start.catalog.kind = "schema_invalid"
    /\ pc = "done"
    /\ exit_code = 2
    /\ lock_owner = 0

\* C13: in a run on a valid catalog, an entry whose market name does not
\* resolve, or for which every provider failed, is entered in the ledger
\* with its reason and its price is left alone; every entry is gone through
\* before the summary; and the run ends with exit code 0, unless a write of
\* its final stage failed.
C13_EntryFailuresNeverAbort ==
    (disk_at_start.catalog.kind = "ok" /\ ~cfg.retry_skipped) =>
        /\ \A e \in SettledSet :
              \/ updated_at[e] # NoTs /\ skipped[e].count = 0
              \/ /\ skipped[e].count > 0
                 /\ prices[e] = disk_at_start.catalog.prices[e]
                 /\ updated_at[e] = NoTs
        /\ \A e \in ExaminedSet :
              resolve(e, cfg) # "ok" => /\ e \in SettledSet
                                        /\ skipped[e].reason = <<None, resolve(e, cfg)>>
        /\ pc \in {"summary", "save_skipped", "backup", "write", "finally", "done"}
              => SettledSet = Entries
        /\ pc \in {"finally", "done"}
              => \/ exit_code = 0
                 \/ exit_code = 1 /\ ~cfg.dry_run /\ "prices" \notin InSeq(io_log)

\* C13 witness: the case did not resolve, the first item was failed by
\* every provider (CSFloat last, rate-limited), the third item was priced
\* after that and the run ended with exit code 0.
C13_Witness ==
    /\ pc = "done"
    /\ exit_code = 0
    /\ skipped[<<"cases", 1>>].reason = <<None, "missing_market_hash">>
    /\ skipped[<<"items", 1>>].reason = <<"csfloat", "rate_limited">>
    /\ skipped[<<"items", 2>>].reason = <<None, "unknown_item_id">>
    /\ updated_at[<<"items", 3>>] # NoTs
    /\ <<"items", 3>> \in fetched

\* ------------------------------------------------------------------
\* Claims on fetch_with_fallback and the provider states (second part)
\* ------------------------------------------------------------------
\* the step belongs to a running call of fetch_with_fallback
InCall == fw.phase \in {"consult", "fetching"}
\* the step is the return of a fetch of provider p with a price
PricedFetchStep(p) ==
    /\ fw.phase = "fetching"
    /\ fw.ordered[fw.k] = p
    /\ fw'.phase = "returned"

\* C14: the providers are consulted in the resolved order, one position at
\* a time; a step of the call changes the state of the provider at the
\* current position only; a price ends the call at once, tagged with the
\* provider that gave it, the providers after it in the order untouched;
\* after the return no provider is consulted.
C14_FirstPriceWins ==
    /\ [](fw.result.v # NoPrice =>
            /\ fw.phase = "returned"
            /\ fw.result.provider = fw.ordered[fw.k])
    /\ [][ /\ InCall =>
              /\ fw'.ordered = fw.ordered
              /\ fw'.k \in {fw.k, fw.k + 1}
              /\ fw'.phase = "fetching" => fw'.k = fw.k
              /\ \A q \in Providers :
                    pstate'[q] # pstate[q] =>
                        (fw.k <= Len(fw.ordered) /\ q = fw.ordered[fw.k])
           /\ \A p \in Providers : PricedFetchStep(p) =>
              /\ fw'.result.v # NoPrice
              /\ fw'.result.provider = p
              /\ fw'.k = fw.k
              /\ \A n \in (fw.k + 1)..Len(fw.ordered) :
                    pstate'[fw.ordered[n]] = pstate[fw.ordered[n]]
           /\ fw.phase = "returned" => (fw'.phase = "idle" /\ pstate' = pstate)
         ]_vars

\* C14 witness: Steam, first of two providers, returned a price while
\* CSFloat, after it in the order, has a hard failure on its counter.
C14_Witness ==
    /\ fw.phase = "returned"
    /\ fw.result.provider = "steam"
    /\ fw.k = 1
    /\ Len(fw.ordered) = 2
    /\ pstate["csfloat"].consecutive_hard_failures = 1

HardFailStep(p) ==
    /\ FailedFetchStep(p)
    /\ p # "skinport"
    /\ fw'.last_reason[2] \in ClaimedHardReasons

\* C18: a hard failure below the threshold adds one to the counter and
\* leaves cooldownUntil alone; the hard failure that reaches the threshold
\* starts the cooldown; a cooldown starts in no other step; a success
\* resets the counter.
C18_CooldownAtThreshold ==
    /\ [](\A p \in Providers :
            /\ pstate[p].consecutive_hard_failures < cfg.fail_threshold
            /\ pstate[p].consecutive_hard_failures >= 0)
    /\ [][\A p \in Providers :
            LET n == pstate[p].consecutive_hard_failures
            IN  /\ (HardFailStep(p) /\ n + 1 < cfg.fail_threshold) =>
                      /\ pstate'[p].consecutive_hard_failures = n + 1
                      /\ pstate'[p].cooldown_until = pstate[p].cooldown_until
                /\ (HardFailStep(p) /\ n + 1 >= cfg.fail_threshold) =>
                      /\ pstate'[p].cooldown_until = fw.now_ts + CooldownSeconds
                      /\ pstate'[p].cooldown_until > 0
                /\ pstate'[p].cooldown_until > pstate[p].cooldown_until =>
                      (HardFailStep(p) /\ n + 1 = cfg.fail_threshold)
                /\ (PricedFetchStep(p) /\ p # "skinport") =>
                      pstate'[p].consecutive_hard_failures = 0
         ]_vars

\* C18 witness: with a threshold of 2, CSFloat is cooling down and Steam
\* has one hard failure and no cooldown.
C18_Witness ==
    /\ cfg.fail_threshold = 2
    /\ pstate["csfloat"].cooldown_until > 0
    /\ pstate["steam"].consecutive_hard_failures = 1
    /\ pstate["steam"].cooldown_until = 0

\* C20: a failed fetch sets skipRoundsRemaining to max(current,
\* skipRoundsOnFailure), never lowering it; skipRoundsRemaining stays
\* between 0 and skipRoundsOnFailure.
C20_SkipRoundsBounded ==
    /\ [](\A p \in Providers :
            /\ pstate[p].skip_rounds_remaining >= 0
            /\ pstate[p].skip_rounds_remaining <= cfg.skip_rounds_on_failure)
    /\ [][\A p \in Providers : FailedFetchStep(p) =>
            /\ pstate'[p].skip_rounds_remaining
                  = Max(pstate[p].skip_rounds_remaining, cfg.skip_rounds_on_failure)
            /\ pstate'[p].skip_rounds_remaining >= pstate[p].skip_rounds_remaining
         ]_vars

\* C20 witness: Skinport and Steam both sit out a round after a failure.
C20_Witness ==
    /\ pstate["skinport"].skip_rounds_remaining = 1
    /\ pstate["steam"].skip_rounds_remaining = 1
    /\ cfg.skip_rounds_on_failure = 1

\* the reasons left by a provider that was passed over without a request
DeclineReasons ==
    {"unavailable", "skipped", "disabled", "disabled_cases", "disabled_keys",
     "disabled_items"}

\* C15: with providers.fallbackOnFailure = false no entry of a refresh run
\* causes a fetch on a second provider: no provider is being fetched right
\* after the fetch of another provider failed for the same entry.
C15_NoFallbackSingleProvider ==
    (~cfg.fallback_on_failure /\ fw.phase = "fetching")
        => (fw.last_reason[1] = None \/ fw.last_reason[2] \in DeclineReasons)

\* the step is a consultation of provider p by the loop of fetch_with_fallback
ConsultStep(p) ==
    /\ fw.phase = "consult"
    /\ fw.k <= Len(fw.ordered)
    /\ fw.ordered[fw.k] = p
    /\ fw' # fw

\* C17: without an explicit order, in round-robin mode the cursor is the
\* number of such calls made so far modulo n and the call starts at that
\* index of the enabled-provider list; in fixed mode the call starts at
\* index 0; a call with an explicit order leaves the cursor unchanged.
C17_RotationOfStart ==
    /\ [](cfg.rotation_mode = "round_robin"
            => rr_index = ncalls % Len(provider_order(cfg)))
    /\ [](cfg.rotation_mode = "fixed" => rr_index = 0)
    /\ [][(fw.phase = "idle" /\ fw'.phase # "idle") =>
            LET po == provider_order(cfg)
                n == Len(po)
            IN  IF fw'.explicit
                THEN rr_index' = rr_index /\ ncalls' = ncalls
                ELSE /\ ncalls' = ncalls + 1
                     /\ fw'.ordered[1] =
                            po[(IF cfg.rotation_mode = "fixed" THEN 0 ELSE ncalls % n) + 1]
                     /\ rr_index' = IF cfg.rotation_mode = "fixed" THEN rr_index
                                    ELSE (rr_index + 1) % n
         ]_vars

\* C17 witness: the fourth call without an explicit order, over three
\* providers in round-robin mode, starts at index 0 again.
C17_Witness ==
    /\ cfg.rotation_mode = "round_robin"
    /\ Len(provider_order(cfg)) = 3
    /\ ncalls = 4
    /\ ~fw.explicit
    /\ fw.phase = "consult"
    /\ fw.k = 1
    /\ fw.ordered[1] = provider_order(cfg)[1]
    /\ rr_index = 1

\* C19 (as stated): a provider that is not cooling down declines a
\* consultation while its counter is positive, the counter dropping by one;
\* the declined consultations and the counter add up to skipRoundsOnFailure;
\* consulted after its declined consultations, with the counter at 0, it
\* is fetched.
C19_FetchedAfterSkipRounds ==
    /\ [](\A p \in Providers : pstate[p].skip_rounds_remaining >= 0)
    /\ [][\A p \in Providers :
            (ConsultStep(p) /\ pstate[p].cooldown_until = 0) =>
                IF pstate[p].skip_rounds_remaining > 0
                THEN /\ fw'.phase = "consult"
                     /\ fetched' = fetched
                     /\ pstate'[p].skip_rounds_remaining
                           = pstate[p].skip_rounds_remaining - 1
                     /\ waited[p] + pstate[p].skip_rounds_remaining
                           = cfg.skip_rounds_on_failure
                ELSE waited[p] > 0 => fw'.phase = "fetching"
         ]_vars

\* C19 (amended): as above, but consulted after its declined consultations
\* the provider is fetched unless it is CSFloat switched off for the bucket
\* of the entry, which is passed over without a fetch.
C19_ConsideredAfterSkipRounds ==
    /\ [](\A p \in Providers : pstate[p].skip_rounds_remaining >= 0)
    /\ [][\A p \in Providers :
            (ConsultStep(p) /\ pstate[p].cooldown_until = 0) =>
                IF pstate[p].skip_rounds_remaining > 0
                THEN /\ fw'.phase = "consult"
                     /\ fetched' = fetched
                     /\ pstate'[p].skip_rounds_remaining
                           = pstate[p].skip_rounds_remaining - 1
                     /\ waited[p] + pstate[p].skip_rounds_remaining
                           = cfg.skip_rounds_on_failure
                ELSE waited[p] > 0 =>
                        \/ fw'.phase = "fetching"
                        \/ /\ p = "csfloat"
                           /\ fw'.phase = "consult"
                           /\ fw'.last_reason \in
                                 {<<p, "disabled_cases">>, <<p, "disabled_keys">>,
                                  <<p, "disabled_items">>}
         ]_vars

\* C19 witness: Steam, which declined two consultations after a failed
\* fetch, is being fetched again.
C19_Witness ==
    /\ cfg.skip_rounds_on_failure = 2
    /\ fw.phase = "fetching"
    /\ fw.ordered[fw.k] = "steam"
    /\ waited["steam"] = 2
    /\ pstate["steam"].skip_rounds_remaining = 0
    /\ pstate["csfloat"].skip_rounds_remaining = 1
    /\ waited["csfloat"] = 1

\* C21: a provider disabled by the configuration (Skinport whose cache did
\* not load, CSFloat switched off or without an FX rate, Steam switched off)
\* is never available and never fetched, whatever the order asked for:
\* is_available is false for it at every time, no fetch is running on it,
\* and its state is never touched.
C21_DisabledNeverAvailable ==
    \A p \in Providers :
        ~enabled_of(cfg, p) =>
            /\ ~pstate[p].enabled
            /\ \A t \in 0..MaxTime : ~is_available(pstate[p], t).ok
            /\ ~(fw.phase = "fetching" /\ fw.ordered[fw.k] = p)
            /\ pstate[p] = ProviderState(p, FALSE)

\* C21 witness: with Skinport's cache not loaded and no FX rate for CSFloat,
\* a call with the explicit order was served by Steam after an earlier
\* failure of Steam.
C21_Witness ==
    /\ ~cfg.skinport_loaded
    /\ cfg.usd_to_cad = NoPrice
    /\ fw.phase = "returned"
    /\ fw.explicit
    /\ fw.ordered = <<"steam">>
    /\ fw.result.provider = "steam"
    /\ now > 0

\* the switch of CSFloat for a category
csfloat_use(c, item_type) ==
    CASE item_type = "cases" -> c.csfloat_use_cases
      [] item_type = "keys" -> c.csfloat_use_keys
      [] OTHER -> c.csfloat_use_items

\* C22: CSFloat is never fetched for an entry of a category it is switched
\* off for (it is passed over with the reason of that category), and is
\* fetched for the categories it is switched on for.
C22_CategorySwitches ==
    /\ [](\A t \in ItemTypes :
            (fw.phase = "fetching" /\ fw.ordered[fw.k] = "csfloat" /\ fw.item_type = t)
                => csfloat_use(cfg, t))
    /\ [][(ConsultStep("csfloat") /\ ~csfloat_use(cfg, fw.item_type)) =>
            /\ fw'.phase = "consult"
            /\ fetched' = fetched
            /\ (pstate["csfloat"].cooldown_until = 0
                  /\ pstate["csfloat"].skip_rounds_remaining = 0)
                 => /\ fw'.last_reason[1] = "csfloat"
                    /\ fw'.last_reason[2] \in
                         {"disabled_cases", "disabled_keys", "disabled_items"}
                    /\ pstate' = pstate
         ]_vars

\* C22 witness: CSFloat, which was fetched for an item earlier (one hard
\* failure is on its counter), is passed over for a case with the reason
\* of the category.
C22_Witness ==
    /\ ~cfg.csfloat_use_cases
    /\ cfg.csfloat_use_items
    /\ fw.item_type = "cases"
    /\ fw.last_reason = <<"csfloat", "disabled_cases">>
    /\ cfg.fail_threshold = 2
    /\ pstate["csfloat"].consecutive_hard_failures = 1

\* the step is the rest of a turn of the fallback loop, after
\* fetch_with_fallback returned
FbApplyStep ==
    /\ pc \in Pass2
    /\ fw.phase = "returned"
    /\ fw'.phase = "idle"

\* C23 (as stated): when the chain is exhausted after a fetch was issued
\* for the entry, the reason returned is the one of a failed fetch (the
\* last one), not the reason of a provider that was passed over.
C23_ReasonOfLastFailedFetch ==
    (fw.phase = "returned" /\ fw.result.v = NoPrice /\ fw.entry \in fetched)
        => fw.result.reason[2] \notin DeclineReasons

\* C23 (amended): when the chain is exhausted the reason returned is the
\* one left by the last provider of the order, whether its fetch failed or
\* it was passed over ("no_provider" for an order without providers); the
\* ledger records that reason for the entry.
C23_ReasonOfLastProvider ==
    /\ []((fw.phase = "returned" /\ fw.result.v = NoPrice) =>
            IF fw.ordered = <<>>
            THEN fw.result.reason = <<None, "no_provider">>
            ELSE /\ fw.result.reason = fw.last_reason
                 /\ fw.result.reason[1] = fw.ordered[Len(fw.ordered)]
                 /\ fw.result.reason[2] \in DeclineReasons \cup hard_fail_reasons
                                               \cup {"no_price"})
    /\ [][\A p \in Providers :
            (ConsultStep(p) \/ FailedFetchStep(p)) =>
                (fw'.phase = "consult" => fw'.last_reason[1] = p)]_vars
    /\ [][(FbApplyStep /\ fw.result.v = NoPrice) =>
            LET e == <<bucket_of(pc), fallback[pos]>>
            IN  /\ skipped'[e].reason = fw.result.reason
                /\ skipped'[e].count = skipped[e].count + 1]_vars

\* C23 witness: the ledger holds csfloat's disabled_cases for a case for
\* which Skinport was fetched and gave no price.
C23_Witness ==
    /\ pc = "done"
    /\ <<"cases", 1>> \in fetched
    /\ skipped[<<"cases", 1>>].reason = <<"csfloat", "disabled_cases">>
    /\ skipped[<<"items", 1>>].reason = <<"csfloat", "no_price">>

\* the prices of the sources that list the name
Listed(quotes) == {i \in DOMAIN quotes : quotes[i] # NoPrice}

\* v is the k-th smallest of the listed prices
IsKth(quotes, v, k) ==
    /\ \E i \in Listed(quotes) : quotes[i] = v
    /\ Cardinality({i \in Listed(quotes) : quotes[i] < v}) < k
    /\ Cardinality({i \in Listed(quotes) : quotes[i] <= v}) >= k

\* a is the mean of the listed prices, to the thousandth below
IsMean(quotes, a) ==
    LET n == Cardinality(Listed(quotes))
        total == SumSeq(SelectSeq(quotes, LAMBDA q : q # NoPrice))
    IN  a * n <= total /\ total < (a + 1) * n

\* a is the median of the listed prices: the middle one, or the average of
\* the two middle ones, to the thousandth below
IsMedian(quotes, a) ==
    LET n == Cardinality(Listed(quotes))
    IN  IF n % 2 = 1
        THEN IsKth(quotes, a, (n + 1) \div 2)
        ELSE \E x, y \in BulkQuotes :
                /\ IsKth(quotes, x, n \div 2)
                /\ IsKth(quotes, y, n \div 2 + 1)
                /\ 2 * a <= x + y
                /\ x + y < 2 * (a + 1)

\* C24: bulk_price_for gives no consensus exactly when fewer than minSources
\* sources list the name; otherwise its price is a whole number of
\* hundredths within half a hundredth of the mean (or median) of the listed
\* prices brought into [clampMin, clampMax], and so lies in that interval;
\* the count returned is the number of sources that list the name.
C24_BulkConsensus ==
    probe.called =>
        LET n == Cardinality(Listed(probe.quotes))
            out == probe.out
        IN  /\ out.n = n
            /\ (out.price = NoPrice) <=> (n < cfg.agg_min_sources)
            /\ out.price # NoPrice =>
                 /\ out.price % 10 = 0
                 /\ out.price >= cfg.agg_clamp_min
                 /\ out.price <= cfg.agg_clamp_max
                 /\ \E a \in 0..5061 :
                      /\ IF cfg.agg_method = "median"
                         THEN IsMedian(probe.quotes, a) ELSE IsMean(probe.quotes, a)
                      /\ \E cl \in {a, cfg.agg_clamp_min, cfg.agg_clamp_max} :
                           /\ cl >= cfg.agg_clamp_min
                           /\ cl <= cfg.agg_clamp_max
                           /\ (a >= cfg.agg_clamp_min /\ a <= cfg.agg_clamp_max) => cl = a
                           /\ a < cfg.agg_clamp_min => cl = cfg.agg_clamp_min
                           /\ a > cfg.agg_clamp_max => cl = cfg.agg_clamp_max
                           /\ Abs(out.price - cl) <= 5

\* C24 witness: with minSources = 2 a name listed by one source only has
\* no consensus.
C24_Witness ==
    /\ probe.called
    /\ cfg.agg_min_sources = 2
    /\ probe.quotes = <<NoPrice, 5024, NoPrice>>
    /\ probe.out.price = NoPrice
    /\ probe.out.n = 1

\* the step is a turn of the first loop that prices its entry from the bulk
\* sources
BulkPricedStep ==
    /\ pc \in Pass1
    /\ Len(examined') = Len(examined) + 1
    /\ examined'[Len(examined')].kind = "priced"

\* the apply-result rule for entry e of bucket b and resolved price v
ApplyRule(e, b, v) ==
    /\ updated_at'[e] = utc_now_iso(now)
    /\ IF Abs(v - prices[e]) >= 10
       THEN /\ prices'[e] = v
            /\ stats'[b].updated = stats[b].updated + 1
            /\ stats'[b].unchanged = stats[b].unchanged
       ELSE /\ prices'[e] = prices[e]
            /\ stats'[b].updated = stats[b].updated
            /\ stats'[b].unchanged = stats[b].unchanged + 1

\* C25: when a price is resolved for an entry, by the bulk consensus or by a
\* live provider, the stored price is replaced and the entry counted as
\* updated exactly when the new price differs from the stored one by at
\* least 0.01; otherwise the stored price is kept and the entry counted as
\* unchanged; in both cases the entry's timestamp is set to the current time.
C25_ApplyResultRule ==
    [][ /\ (FbApplyStep /\ fw.result.v # NoPrice)
            => ApplyRule(fw.entry, fw.entry[1], fw.result.v)
        /\ BulkPricedStep
            => \E quotes \in [1..NSources -> BulkPrices \cup {NoPrice}] :
                 /\ bulk_price_for(quotes, cfg).price # NoPrice
                 /\ ApplyRule(examined'[Len(examined')].e, pc,
                              bulk_price_for(quotes, cfg).price)
      ]_vars

\* the reason codes of a market name that cannot be resolved
ResolutionErrors ==
    {"missing_market_hash", "invalid_item_key", "unknown_item_id",
     "variant_requires_override"}

\* the step is a turn of the first loop whose entry has no resolvable
\* market name
ResolutionFailStep ==
    /\ pc \in Pass1
    /\ Len(examined') = Len(examined) + 1
    /\ examined'[Len(examined')].kind \in ResolutionErrors

\* entry e of bucket b is left untouched by the step, entered in the ledger
\* with the given reason and counted as skipped
LeftUntouched(e, b, reason) ==
    /\ prices'[e] = prices[e]
    /\ updated_at'[e] = updated_at[e]
    /\ skipped'[e].count = skipped[e].count + 1
    /\ skipped'[e].reason = reason
    /\ reason # NoReason
    /\ stats'[b].skipped = stats[b].skipped + 1
    /\ stats'[b].updated = stats[b].updated
    /\ stats'[b].unchanged = stats[b].unchanged

\* C26: an entry whose price cannot be resolved (its market name does not
\* resolve, or the bulk sources and every live provider fail) keeps its
\* stored price and its timestamp, as they were read at the start of the
\* run; the skip ledger holds an entry for it with a reason code; and the
\* step that gives it up counts it as skipped.
C26_UnresolvedLeftUntouched ==
    /\ [](\A e \in Entries :
            skipped[e].count = disk_at_start.skipped[e].count + 1
                => /\ prices[e] = disk_at_start.catalog.prices[e]
                   /\ updated_at[e] = disk_at_start.catalog.updated_at[e]
                   /\ skipped[e].reason # NoReason)
    /\ [][ /\ ResolutionFailStep
                => LeftUntouched(examined'[Len(examined')].e, pc,
                                 <<None, examined'[Len(examined')].kind>>)
           /\ (FbApplyStep /\ fw.result.v = NoPrice)
                => LeftUntouched(fw.entry, fw.entry[1], fw.result.reason)
         ]_vars

\* C26 witness: at the end of a run an item that no provider could price
\* and a case whose market name did not resolve hold the price and the
\* timestamp of the catalog read, are in the ledger and were counted.
C26_Witness ==
    /\ pc = "done"
    /\ disk_at_start.skipped = GateLedger
    /\ skipped[<<"items", 1>>].count = 3
    /\ skipped[<<"items", 1>>].reason[2] = "no_price"
    /\ prices[<<"items", 1>>] = 5030
    /\ updated_at[<<"items", 1>>] = MaxTime - 1
    /\ skipped[<<"cases", 1>>].count = 2
    /\ skipped[<<"cases", 1>>].reason = <<None, "missing_market_hash">>
    /\ prices[<<"cases", 1>>] = 5000
    /\ stats["items"].skipped >= 1
    /\ stats["cases"].skipped = 1

\* the entries the run priced from the bulk sources, and those it gave up
\* in the first loop
BulkPricedSet ==
    {examined[n].e : n \in {m \in 1..Len(examined) : examined[m].kind = "priced"}}
GivenUpSet ==
    {examined[n].e :
        n \in {m \in 1..Len(examined) : examined[m].kind \in ResolutionErrors}}
AttemptedSet ==
    {examined[n].e : n \in {m \in 1..Len(examined) : examined[m].kind # "fresh"}}

\* the entry the loops of refresh_once are at
CurrentEntry ==
    IF pc \in Pass1 /\ pos <= Len(ids) THEN {<<pc, ids[pos]>>}
    ELSE IF pc \in Pass2 /\ pos <= Len(fallback) THEN {<<bucket_of(pc), fallback[pos]>>}
    ELSE {}

\* C27: an entry priced in the run, by the bulk consensus or by a live
\* provider, whether its price changed or not, is absent from the skip
\* ledger from then on, and an entry that failed in the run is present; a
\* step changes the ledger entry of the entry it handles only, so that an
\* entry the run did not attempt keeps the ledger entry read at the start;
\* and the ledger saved at the end of the run is the ledger in memory,
\* which the next run reads.
C27_LedgerClearedOnSuccess ==
    /\ [](\A e \in BulkPricedSet : skipped[e] = Absent)
    /\ [](\A e \in GivenUpSet : skipped[e].count > 0)
    /\ [](\A e \in QueuedSet \cap SettledSet :
            \/ skipped[e] = Absent
            \/ skipped[e].count = disk_at_start.skipped[e].count + 1)
    /\ [](\A e \in Entries \ AttemptedSet :
            pc \in Pass1 \cup Pass2 \cup {"summary", "save_skipped"}
                => skipped[e] = disk_at_start.skipped[e])
    /\ []("skipped" \in InSeq(io_log) => disk_skipped = skipped)
    /\ [][ /\ (FbApplyStep /\ fw.result.v # NoPrice) => skipped'[fw.entry] = Absent
           /\ (FbApplyStep /\ fw.result.v = NoPrice) => skipped'[fw.entry].count > 0
           /\ pc # "load"
                => \A e \in Entries \ CurrentEntry : skipped'[e] = skipped[e]
           /\ pc = "load" => skipped' \in {skipped, disk_skipped}
         ]_vars

\* C27 witness: at the end of a run started with a ledger of three entries,
\* the case priced by the bulk sources and the item priced by a provider
\* are gone from the saved ledger, and the item that failed is in it.
C27_Witness ==
    /\ pc = "done"
    /\ disk_at_start.skipped = GateLedger
    /\ "skipped" \in InSeq(io_log)
    /\ disk_skipped[<<"cases", 1>>] = Absent
    /\ <<"cases", 1>> \in BulkPricedSet
    /\ disk_skipped[<<"items", 1>>] = Absent
    /\ <<"items", 1>> \in QueuedSet
    /\ disk_skipped[<<"items", 3>>].count = 2
    /\ <<"items", 3>> \in QueuedSet

\* C28: over any sequence of record_skip and clear_skip calls, the count of
\* an entry is the number of record_skip calls made for it since it was
\* last absent and its reason is the one of the latest of them; an entry
\* with no such call is absent; clear_skip removes the entry and changes
\* nothing when the entry is absent; and a call changes no other entry.
C28_RecordSkipCounts ==
    /\ [](\A e \in Entries :
            /\ skipped[e].count = Len(trail[e])
            /\ trail[e] = <<>> => skipped[e] = Absent
            /\ trail[e] # <<>> => skipped[e].reason = trail[e][Len(trail[e])])
    /\ [][ /\ \A e \in Entries : trail'[e] = trail[e] => skipped'[e] = skipped[e]
           /\ Cardinality({e \in Entries : skipped'[e] # skipped[e]}) <= 1
           /\ \A e \in Entries :
                (trail'[e] = <<>> /\ trail[e] # <<>>) => skipped'[e] = Absent
         ]_vars

\* C28 witness: an entry recorded three times has count 3 and the reason of
\* the last call; another, whose one standing record was made later, has
\* count 1; a third is absent.
C28_Witness ==
    /\ pc = "ledger"
    /\ trail[<<"items", 1>>] = <<<<"skinport", "no_price">>>>
    /\ skipped[<<"items", 1>>].count = 1
    /\ skipped[<<"items", 1>>].lastAttemptUtc = 3
    /\ skipped[<<"cases", 1>>].count = 3
    /\ skipped[<<"cases", 1>>].reason = <<None, "missing_market_hash">>
    /\ skipped[<<"cases", 1>>].lastAttemptUtc = 2
    /\ skipped[<<"items", 2>>] = Absent

\* the entries present in the skip ledger when the run started
InLedgerAtStart == {e \in Entries : disk_at_start.skipped[e].count > 0}

\* the catalog has been read and the loops have not been left by an error
Loaded == pc \in Pass1 \cup Pass2 \cup {"summary", "save_skipped", "backup", "write"}

\* C29: in retry-skipped mode the run examines the entries present in the
\* skip ledger at its start and no other, and attempts each of them whatever
\* its age (none is passed over as fresh); an entry that is not in the
\* ledger is never looked up and keeps its price and timestamp, in memory
\* and in the catalog file; with an empty ledger the run returns 0 with no
\* entry examined, no counter moved and no file written.
C29_RetrySkippedMode ==
    cfg.retry_skipped =>
        /\ ExaminedSet \subseteq InLedgerAtStart
        /\ fetched \subseteq InLedgerAtStart
        /\ \A n \in 1..Len(examined) : examined[n].kind # "fresh"
        /\ pc \in {"summary", "save_skipped", "backup", "write"}
             => ExaminedSet = InLedgerAtStart
        /\ \A e \in Entries \ InLedgerAtStart :
             /\ Loaded => /\ prices[e] = disk_at_start.catalog.prices[e]
                          /\ updated_at[e] = disk_at_start.catalog.updated_at[e]
             /\ disk_prices.kind = "ok"
                  => /\ disk_prices.prices[e] = disk_at_start.catalog.prices[e]
                     /\ disk_prices.updated_at[e] = disk_at_start.catalog.updated_at[e]
        /\ InLedgerAtStart = {}
             => /\ examined = <<>>
                /\ io_log = <<>>
                /\ stats = ZeroStats
                /\ pc \in {"start", "load", leave_try, "done"}
                /\ pc \in {leave_try, "done"} => exit_code = 0

\* C29 witness: a retry-skipped run is over; the item of the ledger whose
\* timestamp was one hour old was attempted and repriced, and the key that
\* was due for refresh but not in the ledger holds its old price and
\* timestamp.
C29_Witness ==
    /\ cfg.retry_skipped
    /\ pc = "done"
    /\ disk_at_start.catalog.updated_at[<<"items", 1>>] = MaxTime - 1
    /\ disk_at_start.catalog.prices[<<"items", 1>>] = 5030
    /\ prices[<<"items", 1>>] = 5020
    /\ updated_at[<<"items", 1>>] = MaxTime
    /\ disk_at_start.catalog.updated_at[<<"keys", 1>>] = MaxTime - 2
    /\ prices[<<"keys", 1>>] = 5010
    /\ updated_at[<<"keys", 1>>] = MaxTime - 2
    /\ ExaminedSet = {<<"cases", 1>>, <<"items", 1>>, <<"items", 3>>}

\* C29 second witness: a retry-skipped run that found the ledger empty
\* has returned 0.
C29_WitnessEmpty ==
    /\ cfg.retry_skipped
    /\ disk_at_start.skipped = EmptyLedger
    /\ pc = "done"
    /\ exit_code = 0

\* entry e, as the catalog read at the start has it, is due for refresh at
\* the current time: one of the four conditions of the staleness gate
\* holds (NoTs is a timestamp that is missing or does not parse)
DueForRefresh(e) ==
    \/ cfg.force
    \/ /\ cfg.force_price_threshold # NoPrice
       /\ disk_at_start.catalog.prices[e] <= cfg.force_price_threshold
    \/ disk_at_start.catalog.updated_at[e] = NoTs
    \/ now - disk_at_start.catalog.updated_at[e] >= cfg.max_age_hours

\* the entries the first loop passed over as fresh
FreshSet ==
    {examined[n].e : n \in {m \in 1..Len(examined) : examined[m].kind = "fresh"}}

\* C30: outside retry-skipped mode every entry of the catalog is examined,
\* and an entry holding a numeric price is attempted exactly when force is
\* set, or its price is at or below the always-refresh threshold, or its
\* timestamp is missing or unparseable, or now - lastUpdatedUtc >=
\* maxAgeHours; an entry for which none of the four holds is passed over:
\* no provider is asked for it and its price, its timestamp and its ledger
\* entry stay as they were read.
C30_StalenessGate ==
    ~cfg.retry_skipped =>
        /\ pc \in {"summary", "save_skipped", "backup", "write"}
             => ExaminedSet = Entries
        /\ \A e \in ExaminedSet :
             disk_at_start.catalog.prices[e] # NoPrice
                => (e \in FreshSet <=> ~DueForRefresh(e))
        /\ \A e \in FreshSet :
             /\ e \notin fetched
             /\ e \notin QueuedSet \cup BulkPricedSet
             /\ Loaded => /\ prices[e] = disk_at_start.catalog.prices[e]
                          /\ updated_at[e] = disk_at_start.catalog.updated_at[e]
                          /\ skipped[e] = disk_at_start.skipped[e]
             /\ disk_prices.kind = "ok"
                  => /\ disk_prices.prices[e] = disk_at_start.catalog.prices[e]
                     /\ disk_prices.updated_at[e] = disk_at_start.catalog.updated_at[e]

\* C30 witness: a run without force and with the threshold at 5.00 is over;
\* the case at 5.01 refreshed one hour ago was passed over, the item at 5.00
\* refreshed one hour ago was attempted because of the threshold, and the
\* item refreshed exactly maxAgeHours ago was attempted.
C30_Witness ==
    /\ ~cfg.retry_skipped /\ ~cfg.force
    /\ cfg.force_price_threshold = 5000
    /\ pc = "done"
    /\ disk_at_start.catalog.prices[<<"cases", 1>>] = 5010
    /\ <<"cases", 1>> \in FreshSet
    /\ updated_at[<<"cases", 1>>] = MaxTime - 1
    /\ disk_at_start.catalog.updated_at[<<"items", 3>>] = MaxTime - 1
    /\ <<"items", 3>> \in BulkPricedSet
    /\ updated_at[<<"items", 3>>] = MaxTime
    /\ disk_at_start.catalog.updated_at[<<"items", 1>>] = MaxTime - cfg.max_age_hours
    /\ <<"items", 1>> \in QueuedSet
    /\ <<"items", 1>> \in fetched

AllFreshAtStart ==
    \A e \in Entries :
        /\ disk_at_start.catalog.prices[e] # NoPrice
        /\ ~DueForRefresh(e)

UsdSource(p) ==
    \/ p = "csfloat"
    \/ p = "skinport" /\ cfg.skinport_prices_are_usd

\* C32: in a run without an FX rate no USD source is used: no request is
\* made to a USD live provider and none returns a price, no entry is priced
\* from bulk feeds in USD, and the run does not fail for it: it ends with
\* exit code 0 once the catalog is written.
C32_NoUsdPriceWithoutFx ==
    cfg.usd_to_cad = NoPrice =>
        /\ fw.phase = "fetching" => ~UsdSource(fw.ordered[fw.k])
        /\ (fw.phase = "returned" /\ fw.result.v # NoPrice)
             => ~UsdSource(fw.result.provider)
        /\ cfg.bulk_usd => BulkPricedSet = {}
        /\ pc \in {leave_try, "done"} => exit_code \in {0, 1}
        /\ (pc = "done" /\ "prices" \in InSeq(io_log)) => exit_code = 0

\* C33: when every price of the catalog read is non-negative, every price
\* is non-negative in every state of the run, in memory and in the catalog
\* file.
C33_PricesNonNegative ==
    (\A e \in Entries : disk_at_start.catalog.prices[e] = NoPrice
                            \/ disk_at_start.catalog.prices[e] >= 0)
        => \A e \in Entries :
              /\ prices[e] = NoPrice \/ prices[e] >= 0
              /\ disk_prices.prices[e] = NoPrice \/ disk_prices.prices[e] >= 0

\* the key of the turn has four parts and a variant other than none, with
\* no override for it
VariantWithoutOverride ==
    /\ call # NoCall
    /\ call.key.valid
    /\ call.key.variant # ""
    /\ Lower(call.key.variant) \notin {"none", "na", "n/a"}
    /\ call.override = NoName

\* the entry of the turn was skipped with this reason and not looked up
SkippedFor(reason) ==
    /\ call.out.kind = reason
    /\ call.looked_up = NoName
    /\ skipped[<<"items", 1>>].count = 1
    /\ skipped[<<"items", 1>>].reason = <<None, reason>>
    /\ stats["items"].skipped = 1

\* C34 (as stated): for a key with a variant and no override, variant
\* Souvenir with allowSouvenirAuto is looked up under a name that starts
\* with "Souvenir "; with allowSouvenirAuto off, or any other variant, the
\* entry is not looked up and is skipped as variant_requires_override.
C34_SouvenirAuto ==
    VariantWithoutOverride =>
        IF call.key.variant = "Souvenir" /\ cfg.allow_souvenir_auto
        THEN /\ call.out.kind = "ok"
             /\ call.looked_up # NoName
             /\ Head(call.looked_up) = "Souvenir "
        ELSE SkippedFor("variant_requires_override")

\* C34 (amended): for a key with a variant and no override, a variant that
\* is Souvenir in any letter case, with allowSouvenirAuto, is looked up
\* under a name that starts with the configured souvenirPrefix (in any
\* letter case) when the item id has a display name, and is skipped as
\* unknown_item_id without a lookup when it has none; with
\* allowSouvenirAuto off, or with any other variant, the entry is not
\* looked up and is skipped as variant_requires_override.
C34_SouvenirAutoKnownItem ==
    VariantWithoutOverride =>
        IF Lower(call.key.variant) = "souvenir" /\ cfg.allow_souvenir_auto
        THEN IF call.display # NoName
             THEN /\ call.out.kind = "ok"
                  /\ call.looked_up = call.out.name
                  /\ call.looked_up # NoName
                  /\ Lower(Head(call.looked_up)) = Lower(cfg.souvenir_prefix)
                  /\ skipped[<<"items", 1>>] = Absent
                  /\ \/ call.looked_up =
                           build_item_market_hash(call.display, call.key.wear,
                                                  call.key.is_st)
                     \/ Tail(call.looked_up) =
                           build_item_market_hash(call.display, call.key.wear,
                                                  call.key.is_st)
             ELSE SkippedFor("unknown_item_id")
        ELSE SkippedFor("variant_requires_override")

\* C34 witness: a StatTrak Souvenir key without override, with
\* allowSouvenirAuto and the default prefix, is looked up under the built
\* name with "Souvenir " in front.
C34_Witness ==
    /\ VariantWithoutOverride
    /\ cfg.allow_souvenir_auto
    /\ cfg.souvenir_prefix = "Souvenir "
    /\ call.key.variant = "Souvenir"
    /\ call.looked_up =
         <<"Souvenir ", "StatTrak ", "AK-47 | Safari Mesh", "Factory New">>

\* the entry ids of a price map: an entry without a numeric price is absent
IdsOf(pr) == {e \in Entries : pr[e] # NoPrice}

\* C35: a run changes values only: at every point of the run the loaded
\* document, and the catalog file, hold exactly the entry ids the catalog
\* had at the start (none added, none removed, also for the ids the ledger
\* names but the catalog lacks), a timestamp is held only for an id of the
\* catalog or one that had a timestamp already, and the other fields of
\* the document are those read at the start.
C35_OnlyValuesChange ==
    /\ Loaded =>
          /\ IdsOf(prices) = IdsOf(disk_at_start.catalog.prices)
          /\ meta = disk_at_start.catalog.meta
          /\ \A e \in Entries :
                updated_at[e] # disk_at_start.catalog.updated_at[e]
                    => e \in IdsOf(disk_at_start.catalog.prices)
    /\ IF disk_prices.kind = "ok"
       THEN /\ IdsOf(disk_prices.prices) = IdsOf(disk_at_start.catalog.prices)
            /\ disk_prices.meta = disk_at_start.catalog.meta
       ELSE disk_prices = disk_at_start.catalog

\* C35 witness: a retry-skipped run whose ledger names an id the catalog
\* lacks has ended, having written a changed catalog: the id is still
\* absent and its ledger entry counts one more.
C35_Witness ==
    /\ cfg.retry_skipped
    /\ pc = "done"
    /\ disk_at_start.skipped[<<"items", 3>>].count = 1
    /\ disk_at_start.catalog.prices[<<"items", 3>>] = NoPrice
    /\ disk_prices.kind = "ok"
    /\ disk_prices # disk_at_start.catalog
    /\ disk_prices.prices[<<"items", 3>>] = NoPrice
    /\ disk_prices.prices[<<"items", 1>>] = 5020
    /\ disk_prices.meta = CatalogMeta
    /\ disk_skipped[<<"items", 3>>].count = 2

\* C36: after reconcile() no inventory of the file is gone, and for every
\* Discord user the Discord index, the user's inventoryId and the identity
\* index of each linked identity name one existing inventory whose
\* mergedInto is null.
C36_OneLiveInventoryPerUser ==
    rec.pc = "done" =>
        /\ \A id \in rec.at_start : rec.inv[id].exists
        /\ \A u \in Users :
              LET c == rec.discord_index[u]
              IN  /\ c # None
                  /\ rec.inv[c].exists
                  /\ rec.links[u].inventoryId = c
                  /\ \A i \in rec.links[u].identities : rec.identity_index[i] = c
                  /\ rec.inv[c].mergedInto = None

\* provider p is enabled, usable for entries of bucket t, and not cooling
\* down at this moment
Eligible(p, t) ==
    /\ enabled_of(cfg, p)
    /\ p = "csfloat" =>
          CASE t = "cases" -> cfg.csfloat_use_cases
            [] t = "keys" -> cfg.csfloat_use_keys
            [] OTHER -> cfg.csfloat_use_items
    /\ \/ pstate[p].cooldown_until <= 0
       \/ now >= pstate[p].cooldown_until

\* a call of the fallback pass gives up without having made a request (no
\* time passes in such a call: the providers stand as they stood at its
\* start, but for the rounds they declined)
GivesUpWithoutFetch ==
    /\ fw.phase = "consult"
    /\ fw'.phase = "returned"
    /\ fw.explicit
    /\ fw.entry \notin fetched

\* C37 (as stated): an entry of the fallback pass for which some enabled
\* provider usable for its bucket is not cooling down gets at least one
\* request.
C37_FetchIfSomeProviderReady ==
    [][GivesUpWithoutFetch => \A p \in Providers : ~Eligible(p, fw.item_type)]_vars

\* C37 (amended): an entry of the fallback pass gets no request only if
\* every enabled provider usable for its bucket and not cooling down
\* declined the entry as one of the skipRoundsOnFailure rounds that follow
\* a failed request of that provider; with skipRoundsOnFailure = 0 no such
\* provider exists and the entry gets a request.
C37_FetchUnlessSkipRounds ==
    [][GivesUpWithoutFetch =>
          \A p \in Providers :
              Eligible(p, fw.item_type) =>
                  /\ cfg.skip_rounds_on_failure > 0
                  /\ waited[p] > 0
                  /\ \E i \in 1..Len(fw.ordered) : fw.ordered[i] = p]_vars

\* C37 witness: a call of the fallback pass returned without a request
\* because Steam, the only provider enabled, not cooling down, declined its
\* round.
C37_Witness ==
    /\ fw.phase = "returned"
    /\ fw.explicit
    /\ fw.entry \notin fetched
    /\ fw.ordered = <<"steam">>
    /\ fw.result.reason = <<"steam", "skipped">>
    /\ Eligible("steam", fw.item_type)
    /\ pstate["steam"].cooldown_until = 0
    /\ cfg.skip_rounds_on_failure = 1

\* C38: at the end of a run the counters of each bucket partition the
\* entries counted in its total: updated + unchanged + skipped = total.
C38_StatsPartition ==
    pc \in {"summary", "done"} =>
        \A b \in ItemTypes :
            stats[b].updated + stats[b].unchanged + stats[b].skipped = stats[b].total

\* C39: in every state and for every provider the count of consecutive
\* hard failures is at least 0 and below failThreshold, and it is 0 while
\* cooldownUntil is set; a step that sets cooldownUntil leaves the count
\* at 0, and a step in which the count does not grow by one leaves it
\* unchanged or at 0.
C39_HardFailureCountBounded ==
    /\ [](\A p \in Providers :
            /\ 0 <= pstate[p].consecutive_hard_failures
            /\ pstate[p].consecutive_hard_failures < cfg.fail_threshold
            /\ pstate[p].cooldown_until > 0
                  => pstate[p].consecutive_hard_failures = 0)
    /\ [][\A p \in Providers :
            /\ (pstate'[p].cooldown_until # pstate[p].cooldown_until
                    /\ pstate'[p].cooldown_until > 0)
                  => pstate'[p].consecutive_hard_failures = 0
            /\ pstate'[p].consecutive_hard_failures \in
                  {0, pstate[p].consecutive_hard_failures,
                   pstate[p].consecutive_hard_failures + 1}]_vars

\* C39 witness: with failThreshold 2, Steam is cooling down with its count
\* back at 0 while CSFloat stands at one hard failure.
C39_Witness ==
    /\ cfg.fail_threshold = 2
    /\ pstate["steam"].cooldown_until > 0
    /\ pstate["steam"].consecutive_hard_failures = 0
    /\ pstate["csfloat"].consecutive_hard_failures = 1
    /\ pstate["csfloat"].cooldown_until = 0

NoRepeat(seq) == \A m, n \in 1..Len(seq) : seq[m] = seq[n] => m = n

\* C40: in one run each selected entry is resolved at most once: it is
\* examined once by the first loop of its bucket, is priced there from the
\* bulk consensus or queued for the fallback pass but never both, is queued
\* at most once and settled at most once; its price and its timestamp
\* change only in the step that settles it, and its count in the skip
\* ledger is at most one above the count read at the start.
C40_ResolvedAtMostOnce ==
    /\ [](Loaded =>
            /\ NoRepeat([n \in 1..Len(examined) |-> examined[n].e])
            /\ NoRepeat(settled)
            /\ NoRepeat(fallback)
            /\ BulkPricedSet \cap QueuedSet = {}
            /\ SettledSet \subseteq ExaminedSet
            /\ pc \in Pass2 =>
                  {<<bucket_of(pc), fallback[n]>> : n \in 1..Len(fallback)}
                      \subseteq QueuedSet
            /\ \A e \in Entries :
                  skipped[e].count <= disk_at_start.skipped[e].count + 1)
    /\ [][Loaded =>
            \A e \in Entries :
                (prices'[e] # prices[e] \/ updated_at'[e] # updated_at[e]
                    \/ skipped'[e] # skipped[e])
                    => /\ e \notin SettledSet
                       /\ e \in InSeq(settled')
                       /\ e \in BulkPricedSet' \cup QueuedSet
                              \/ (prices'[e] = prices[e]
                                    /\ updated_at'[e] = updated_at[e])]_vars

\* C40 witness: a run has ended in which one entry was priced by the bulk
\* pass and another, queued, was priced by the fallback pass, while a
\* third, queued, failed and counts one more skip than at the start.
C40_Witness ==
    /\ pc = "done"
    /\ \E a \in BulkPricedSet, b \in QueuedSet, c \in QueuedSet :
          /\ prices[a] # disk_at_start.catalog.prices[a]
          /\ prices[b] # disk_at_start.catalog.prices[b]
          /\ updated_at[b] # disk_at_start.catalog.updated_at[b]
          /\ disk_at_start.skipped[c].count > 0
          /\ skipped[c].count = disk_at_start.skipped[c].count + 1
          /\ prices[c] = disk_at_start.catalog.prices[c]

====
